---- MODULE Spec2Model ----
(***************************************************************************)
(* GMP validation engine of the IPO GMP analyzer                           *)
(* (backend/services/gmp_validator.py, backend/schemas.py) and the fetch   *)
(* cycles that feed it (backend/services/data_fetcher.py,                  *)
(* backend/services/real_time_ipo_service.py).                             *)
(*                                                                         *)
(* Numbers.  GMP values are integers (currency units).  Source weights     *)
(* are kept in hundredths (0.9 is 90).  validated_gmp is kept in           *)
(* hundredths (round(x, 2)), confidence_score and variance in thousandths  *)
(* (round(x, 3)).  A rounding or a comparison is decided by exact          *)
(* rational arithmetic on integers wherever the exact value is off the     *)
(* boundary, and by the float64 operations of the code, one by one,        *)
(* where the exact value lies on it.                                       *)
(***************************************************************************)
EXTENDS Integers, Sequences, FiniteSets, TLC

VARIABLES db, now, validation, spike,
          profit, cycle, realtime, fetcher, ipo_table, all_run,
          scheduler, limiter

vars == <<db, now, validation, spike,
          profit, cycle, realtime, fetcher, ipo_table, all_run,
          scheduler, limiter>>

\* db          the gmp_data table, in insertion order
\* now         datetime.utcnow(), in hours
\* validation  the last call of validate_ipo_gmp
\* spike       the last call of detect_gmp_spike
\* profit      the last call of is_gmp_profitable
\* cycle       the last call of RealTimeIPOService.fetch_all_ipo_data
\* realtime    the RealTimeIPOService object, its stores and its loops
\* fetcher     the running call of DataFetcher.fetch_all_sources
\* ipo_table   the ipos table
\* all_run     the last call of validate_all_active_ipos
\* scheduler   the IPOScheduler object and the task running its loop
\* limiter     the rate limiter's memory store and its last call
validatorVars == <<db, now, validation, spike>>

serviceVars ==
    <<profit, cycle, realtime, fetcher, ipo_table, all_run, scheduler, limiter>>

(***************************************************************************)
(* The components before they are used                                     *)
(***************************************************************************)
NoProfit == [status |-> "none"]

NoCycle == [status |-> "none"]

\* RealTimeIPOService.__init__: is_running False, last_fetch None (<<>>);
\* saved is the ipos table as this service writes it, cache the
\* 'latest_ipo_data' entry, loops the _periodic_fetch tasks created,
\* starting the number of start_service calls awaiting their initial fetch,
\* session the state of self.session (none is None)
RealTimeInit ==
    [is_running |-> FALSE, last_fetch |-> <<>>, saved |-> <<>>,
     cache |-> <<>>, loops |-> <<>>, starting |-> 0, session |-> "none"]

FetcherIdle == [pc |-> "idle"]

NoRun == [status |-> "none"]

\* IPOScheduler.__init__: no tasks, not running, no loop task, no history
SchedulerInit ==
    [is_running |-> FALSE, tasks |-> <<>>, task_history |-> <<>>, time |-> 0,
     loop |-> [pc |-> "none", index |-> 0, current_time |-> 0],
     detached |-> <<>>]

\* RateLimiter.__init__: no deque in self.requests, no blocked identifier;
\* time is time.time() in seconds, allowed the timestamps of the calls
\* that were allowed since the identifier's last reset, last the last call
\* of is_allowed, remaining and blocked what the last calls of
\* get_remaining_requests and is_blocked returned
LimiterInit ==
    [requests |-> <<>>, blocked_ips |-> <<>>, time |-> 0, allowed |-> <<>>,
     last |-> [status |-> "none"], remaining |-> <<>>, blocked |-> <<>>]

ServicesIdle ==
    /\ profit = NoProfit
    /\ cycle = NoCycle
    /\ realtime = RealTimeInit
    /\ fetcher = FetcherIdle
    /\ ipo_table = <<>>
    /\ all_run = NoRun
    /\ scheduler = SchedulerInit
    /\ limiter = LimiterInit

(***************************************************************************)
(* GMPValidator.__init__                                                   *)
(***************************************************************************)
min_sources == 2

outlier_threshold == 2

time_window_hours == 6

\* max_variance_threshold = 0.3, as numerator and denominator
max_variance_threshold == <<3, 10>>

\* the reliability gate on the confidence score: 0.6
min_confidence == <<6, 10>>

\* source reliability weights, in hundredths
source_weights ==
    [chittorgarh |-> 90, ipowatch |-> 85, investorgain |-> 80,
     applynse |-> 75, nse |-> 100, bse |-> 100]

\* self.source_weights.get(record.source, 0.5), in hundredths
default_weight == 50

\* the 1e-6 added to the mean: 1 / EpsilonInv
EpsilonInv == 1000000

(***************************************************************************)
(* Integer helpers                                                         *)
(***************************************************************************)
Abs(x) == IF x < 0 THEN -x ELSE x

Min(a, b) == IF a <= b THEN a ELSE b

Max(a, b) == IF a >= b THEN a ELSE b

RECURSIVE SumSeq(_)
SumSeq(s) == IF s = <<>> THEN 0 ELSE Head(s) + SumSeq(Tail(s))

\* the subsequence of s at the positions in idx, in increasing position
RECURSIVE Pick(_, _, _)
Pick(s, idx, i) ==
    IF i > Len(s) THEN <<>>
    ELSE (IF i \in idx THEN <<s[i]>> ELSE <<>>) \o Pick(s, idx, i + 1)

Range(s) == {s[i] : i \in DOMAIN s}

\* num / den (den > 0) rounded to the nearest integer, ties to even:
\* np.round, which Python's round() of a numpy float calls
RoundHalfEven(num, den) ==
    LET f == num \div den
        r == num % den
    IN  IF 2 * r < den THEN f
        ELSE IF 2 * r > den THEN f + 1
        ELSE IF f % 2 = 0 THEN f ELSE f + 1

(***************************************************************************)
(* numpy statistics on a sequence of integers                              *)
(***************************************************************************)
\* n^2 * np.var(values) = n * sum(v^2) - (sum v)^2
VarNum(values) ==
    Len(values) * SumSeq([i \in DOMAIN values |-> values[i] * values[i]])
        - SumSeq(values) * SumSeq(values)

\* 4 * np.percentile(values, q) for q in {25, 75} (linear interpolation
\* between the order statistics around position q/100 * (n - 1))
Percentile4(values, q) ==
    LET sorted == SortSeq(values, LAMBDA a, b : a < b)
        pos == q * (Len(values) - 1)
        lo == (pos \div 100) + 1
        quarters == (pos % 100) \div 25
    IN  IF quarters = 0 THEN 4 * sorted[lo]
        ELSE 4 * sorted[lo] + quarters * (sorted[lo + 1] - sorted[lo])

(***************************************************************************)
(* IEEE 754 double arithmetic                                              *)
(*                                                                         *)
(* numpy evaluates the z-scores in float64.  At a batch whose exact        *)
(* z-score equals the threshold the comparison z > threshold is decided    *)
(* by the roundings of the operations, so these are computed as the        *)
(* hardware computes them: every operation returns the double nearest to   *)
(* the exact result, ties to the even significand.                         *)
(*                                                                         *)
(* A natural number is a sequence of limbs (digits in base 2^15), least    *)
(* significant first, without a zero most significant limb.  A             *)
(* non-negative double is [m |-> significand, e |-> exponent], of value    *)
(* m * 2^e with 2^52 <= m < 2^53, or m = <<>> for 0.  The exponents of     *)
(* the values that occur stay far from the ends of the double range.       *)
(***************************************************************************)
LimbBits == 15

Limb == 2 ^ LimbBits

Precision == 53

\* the limb of weight Limb^(i-1)
LimbAt(a, i) == IF i <= Len(a) THEN a[i] ELSE 0

RECURSIVE NatTrim(_)
NatTrim(a) ==
    IF a = <<>> \/ a[Len(a)] # 0 THEN a
    ELSE NatTrim(SubSeq(a, 1, Len(a) - 1))

RECURSIVE NatOf(_)
NatOf(v) == IF v = 0 THEN <<>> ELSE <<v % Limb>> \o NatOf(v \div Limb)

RECURSIVE NatAddFrom(_, _, _, _)
NatAddFrom(a, b, i, carry) ==
    IF i > Len(a) /\ i > Len(b)
    THEN IF carry = 0 THEN <<>> ELSE <<carry>>
    ELSE <<(LimbAt(a, i) + LimbAt(b, i) + carry) % Limb>>
            \o NatAddFrom(a, b, i + 1, (LimbAt(a, i) + LimbAt(b, i) + carry) \div Limb)

NatAdd(a, b) == NatAddFrom(a, b, 1, 0)

\* a - b for a >= b
RECURSIVE NatSubFrom(_, _, _, _)
NatSubFrom(a, b, i, borrow) ==
    IF i > Len(a) THEN <<>>
    ELSE <<(a[i] - LimbAt(b, i) - borrow) % Limb>>
            \o NatSubFrom(a, b, i + 1,
                          IF a[i] - LimbAt(b, i) - borrow < 0 THEN 1 ELSE 0)

NatSub(a, b) == NatTrim(NatSubFrom(a, b, 1, 0))

\* the sign of a - b, from limb i downwards
RECURSIVE NatCompareFrom(_, _, _)
NatCompareFrom(a, b, i) ==
    IF i = 0 THEN 0
    ELSE IF a[i] # b[i] THEN (IF a[i] > b[i] THEN 1 ELSE -1)
    ELSE NatCompareFrom(a, b, i - 1)

NatCompare(a, b) ==
    IF Len(a) # Len(b) THEN (IF Len(a) > Len(b) THEN 1 ELSE -1)
    ELSE NatCompareFrom(a, b, Len(a))

\* a * k for 0 <= k < Limb
RECURSIVE NatScaleFrom(_, _, _, _)
NatScaleFrom(a, k, i, carry) ==
    IF i > Len(a)
    THEN IF carry = 0 THEN <<>> ELSE <<carry>>
    ELSE <<(a[i] * k + carry) % Limb>>
            \o NatScaleFrom(a, k, i + 1, (a[i] * k + carry) \div Limb)

NatScale(a, k) == IF k = 0 THEN <<>> ELSE NatScaleFrom(a, k, 1, 0)

\* a * Limb^j
NatShiftLimbs(a, j) == IF a = <<>> THEN a ELSE [i \in 1..j |-> 0] \o a

RECURSIVE NatMulFrom(_, _, _)
NatMulFrom(a, b, j) ==
    IF j > Len(b) THEN <<>>
    ELSE NatAdd(NatShiftLimbs(NatScale(a, b[j]), j - 1), NatMulFrom(a, b, j + 1))

NatMul(a, b) == NatMulFrom(a, b, 1)

\* a * 2^k
NatShiftLeft(a, k) ==
    NatShiftLimbs(NatScale(a, 2 ^ (k % LimbBits)), k \div LimbBits)

\* floor(a / 2^k)
NatShiftRight(a, k) ==
    LET j == k \div LimbBits
        r == k % LimbBits
    IN  NatTrim([i \in 1..(IF Len(a) > j THEN Len(a) - j ELSE 0) |->
                    (a[i + j] \div 2 ^ r)
                        + (LimbAt(a, i + j + 1) % 2 ^ r) * 2 ^ (LimbBits - r)])

\* the number of binary digits of an integer below Limb
RECURSIVE IntBitLength(_)
IntBitLength(v) == IF v = 0 THEN 0 ELSE 1 + IntBitLength(v \div 2)

NatBitLength(a) ==
    IF a = <<>> THEN 0
    ELSE LimbBits * (Len(a) - 1) + IntBitLength(a[Len(a)])

\* the largest q with q * d <= r, from an estimate that is not below it
RECURSIVE QuotientLimb(_, _, _)
QuotientLimb(r, d, estimate) ==
    IF NatCompare(NatScale(d, estimate), r) > 0
    THEN QuotientLimb(r, d, estimate - 1)
    ELSE estimate

\* one step of long division by d, whose most significant limb is at
\* least Limb / 2: <<quotient, remainder>> of the limbs j and above of a,
\* from those of the limbs above j.  The estimate of the quotient limb is
\* the quotient of the two most significant limbs of the running
\* remainder by the most significant limb of d (Knuth's algorithm D).
NatDivStep(a, d, j, qr) ==
    CHOOSE step \in
      {<<NatTrim(<<q>> \o qr[1]), NatSub(r, NatScale(d, q))>> :
          r \in {NatTrim(<<a[j]>> \o qr[2])},
          q \in {QuotientLimb(NatTrim(<<a[j]>> \o qr[2]), d,
                              Min(Limb - 1,
                                  (LimbAt(qr[2], Len(d)) * Limb
                                      + LimbAt(<<a[j]>> \o qr[2], Len(d)))
                                     \div d[Len(d)]))}} : TRUE

RECURSIVE NatDivFrom(_, _, _, _)
NatDivFrom(a, d, j, qr) ==
    IF j = 0 THEN qr
    ELSE CHOOSE result \in
           {NatDivFrom(a, d, j - 1, next) : next \in {NatDivStep(a, d, j, qr)}} :
           TRUE

\* <<floor(a / d), a mod d>> for d > 0: a and d are scaled by the power
\* of two that brings d's most significant limb to Limb / 2 or more
NatDivMod(a, d) ==
    CHOOSE result \in
      {<<qr[1], NatShiftRight(qr[2], k)>> :
          k \in {LimbBits - IntBitLength(d[Len(d)])},
          qr \in {NatDivFrom(NatShiftLeft(a, LimbBits - IntBitLength(d[Len(d)])),
                             NatShiftLeft(d, LimbBits - IntBitLength(d[Len(d)])),
                             Len(NatShiftLeft(a, LimbBits - IntBitLength(d[Len(d)]))),
                             <<<<>>, <<>>>>)}} : TRUE

\* floor(sqrt(v)) of an integer v < Limb^2, binary digit by binary digit
RECURSIVE IntSqrtFrom(_, _, _)
IntSqrtFrom(v, k, root) ==
    IF k < 0 THEN root
    ELSE IF (root + 2 ^ k) * (root + 2 ^ k) <= v
    THEN IntSqrtFrom(v, k - 1, root + 2 ^ k)
    ELSE IntSqrtFrom(v, k - 1, root)

\* Newton's iteration x -> floor((x + floor(a / x)) / 2) from an x that is
\* not below floor(sqrt(a)): it decreases until it reaches floor(sqrt(a))
RECURSIVE NatSqrtFrom(_, _)
NatSqrtFrom(a, x) ==
    CHOOSE result \in
      {IF NatCompare(y, x) >= 0 THEN x ELSE NatSqrtFrom(a, y) :
          y \in {NatShiftRight(NatAdd(x, NatDivMod(a, x)[1]), 1)}} : TRUE

\* floor(sqrt(a)); the first x is the root of the leading 29 or 30 binary
\* digits of a, plus 1, at their weight
NatSqrt(a) ==
    LET half == IF NatBitLength(a) <= 2 * LimbBits THEN 0
                ELSE (NatBitLength(a) - 2 * LimbBits + 1) \div 2
        lead == NatShiftRight(a, 2 * half)
    IN  IF a = <<>> THEN <<>>
        ELSE NatSqrtFrom(a, NatShiftLeft(
                NatOf(IntSqrtFrom(LimbAt(lead, 2) * Limb + LimbAt(lead, 1),
                                  LimbBits - 1, 0) + 1), half))

\* n without its last `drop` binary digits (drop > 0), rounded to nearest;
\* ties go to the even result unless the value lies above n (inexact)
RoundOff(n, drop, inexact) ==
    CHOOSE rounded \in
      {CHOOSE r \in
         {IF \/ above > 0
             \/ above = 0 /\ (inexact \/ kept[1] % 2 = 1)
          THEN NatAdd(kept, <<1>>) ELSE kept :
             above \in {NatCompare(NatSub(n, NatShiftLeft(kept, drop)),
                                   NatShiftLeft(<<1>>, drop - 1))}} : TRUE :
          kept \in {NatShiftRight(n, drop)}} : TRUE

\* the double nearest to n * 2^e, or to a value between n * 2^e and
\* (n + 1) * 2^e if inexact; ties go to the even significand
RoundToDouble(n, e, inexact) ==
    IF n = <<>> THEN [m |-> <<>>, e |-> 0]
    ELSE CHOOSE double \in
           {IF drop <= 0 THEN [m |-> NatShiftLeft(n, -drop), e |-> e + drop]
            ELSE CHOOSE carried \in
                   {IF NatBitLength(rounded) > Precision
                    THEN [m |-> NatShiftRight(rounded, 1), e |-> e + drop + 1]
                    ELSE [m |-> rounded, e |-> e + drop] :
                       rounded \in {RoundOff(n, drop, inexact)}} : TRUE :
               drop \in {NatBitLength(n) - Precision}} : TRUE

DoubleOf(v) == RoundToDouble(NatOf(v), 0, FALSE)

\* x + y
DoubleAdd(x, y) ==
    IF x.m = <<>> THEN y
    ELSE IF y.m = <<>> THEN x
    ELSE LET e == IF x.e < y.e THEN x.e ELSE y.e
         IN  RoundToDouble(NatAdd(NatShiftLeft(x.m, x.e - e),
                                  NatShiftLeft(y.m, y.e - e)), e, FALSE)

\* |x - y|
DoubleAbsDiff(x, y) ==
    IF x.m = <<>> THEN y
    ELSE IF y.m = <<>> THEN x
    ELSE LET e == IF x.e < y.e THEN x.e ELSE y.e
             a == NatShiftLeft(x.m, x.e - e)
             b == NatShiftLeft(y.m, y.e - e)
         IN  RoundToDouble(IF NatCompare(a, b) >= 0 THEN NatSub(a, b)
                           ELSE NatSub(b, a), e, FALSE)

\* x * y
DoubleMul(x, y) == RoundToDouble(NatMul(x.m, y.m), x.e + y.e, FALSE)

\* x / y for y > 0: the quotient of the significands to 56 or 57 digits
DoubleDiv(x, y) ==
    IF x.m = <<>> THEN x
    ELSE CHOOSE quotient \in
           {RoundToDouble(qr[1], x.e - y.e - (Precision + 3), qr[2] # <<>>) :
               qr \in {NatDivMod(NatShiftLeft(x.m, Precision + 3), y.m)}} : TRUE

\* sqrt(x): the root of the significand scaled by an even power of two
\* to 112 or 113 digits
DoubleSqrt(x) ==
    IF x.m = <<>> THEN x
    ELSE CHOOSE root \in
           {RoundToDouble(r, (x.e - k) \div 2,
                          NatCompare(NatMul(r, r), NatShiftLeft(x.m, k)) # 0) :
               k \in {IF x.e % 2 = 0 THEN 60 ELSE 61},
               r \in {NatSqrt(NatShiftLeft(x.m, IF x.e % 2 = 0 THEN 60 ELSE 61))}} :
           TRUE

\* x > y
DoubleGreater(x, y) ==
    IF x.m = <<>> THEN FALSE
    ELSE IF y.m = <<>> THEN TRUE
    ELSE IF x.e # y.e THEN x.e > y.e
    ELSE NatCompare(x.m, y.m) > 0

\* np.abs(v - mean) for an integer v and the double of sign s and
\* magnitude mean
AbsDeviation(v, s, mean) ==
    IF (v >= 0 /\ s >= 0) \/ (v <= 0 /\ s <= 0)
    THEN DoubleAbsDiff(DoubleOf(Abs(v)), mean)
    ELSE DoubleAdd(DoubleOf(Abs(v)), mean)

(***************************************************************************)
(* Signed doubles                                                          *)
(*                                                                         *)
(* The weighted average, the variance, the confidence score, the           *)
(* percentage change and the percentage gain are float64 values too.       *)
(* Where the exact value of one of them lies exactly on a rounding         *)
(* boundary or on a threshold, the roundings of the operations decide      *)
(* what round() or the comparison gives, and the value is computed as      *)
(* the code computes it, operation by operation.  A signed double is       *)
(* [neg |-> its sign, abs |-> the double of its magnitude].  Each          *)
(* operation evaluates its operands once.                                  *)
(***************************************************************************)
\* the value of a natural below 2^31
RECURSIVE NatValue(_)
NatValue(a) == IF a = <<>> THEN 0 ELSE Head(a) + Limb * NatValue(Tail(a))

\* the sign of x - y for non-negative doubles
DoubleCompare(x, y) ==
    IF x.m = <<>> /\ y.m = <<>> THEN 0
    ELSE IF x.m = <<>> THEN -1
    ELSE IF y.m = <<>> THEN 1
    ELSE IF x.e # y.e THEN (IF x.e > y.e THEN 1 ELSE -1)
    ELSE NatCompare(x.m, y.m)

\* float(v) of an integer v
IntFloat(v) == [neg |-> v < 0, abs |-> DoubleOf(Abs(v))]

\* the double nearest to p / q (q > 0): what a decimal literal such as
\* 0.3 = 3 / 10 denotes, and what the division of two integers gives
FloatOf(p, q) ==
    [neg |-> p < 0, abs |-> DoubleDiv(DoubleOf(Abs(p)), DoubleOf(q))]

FloatSign(x) == IF x.abs.m = <<>> THEN 0 ELSE IF x.neg THEN -1 ELSE 1

\* x + y
FloatAdd(x, y) ==
    CHOOSE sum \in
      {IF a.neg = b.neg
       THEN [neg |-> a.neg, abs |-> DoubleAdd(a.abs, b.abs)]
       ELSE [neg |-> IF DoubleCompare(a.abs, b.abs) >= 0 THEN a.neg ELSE b.neg,
             abs |-> DoubleAbsDiff(a.abs, b.abs)] :
          a \in {x}, b \in {y}} : TRUE

\* x - y
FloatSub(x, y) ==
    CHOOSE difference \in
      {FloatAdd(a, [neg |-> ~b.neg, abs |-> b.abs]) : a \in {x}, b \in {y}} :
      TRUE

\* x * y
FloatMul(x, y) ==
    CHOOSE product \in
      {[neg |-> a.neg # b.neg, abs |-> DoubleMul(a.abs, b.abs)] :
          a \in {x}, b \in {y}} : TRUE

\* x / y  (y # 0)
FloatDiv(x, y) ==
    CHOOSE quotient \in
      {[neg |-> a.neg # b.neg, abs |-> DoubleDiv(a.abs, b.abs)] :
          a \in {x}, b \in {y}} : TRUE

\* the sign of x - y
FloatCompare(x, y) ==
    CHOOSE sign \in
      {IF FloatSign(a) # FloatSign(b)
       THEN (IF FloatSign(a) > FloatSign(b) THEN 1 ELSE -1)
       ELSE FloatSign(a) * DoubleCompare(a.abs, b.abs) :
          a \in {x}, b \in {y}} : TRUE

\* abs(x)
FloatAbs(x) == CHOOSE magnitude \in {[neg |-> FALSE, abs |-> a.abs] : a \in {x}} : TRUE

\* np.rint(x): the nearest integer, the even one of two equally near
\* (|x| < 2^31)
Rint(x) ==
    CHOOSE nearest \in
      {LET m == a.abs.m
           drop == -a.abs.e
           kept == NatShiftRight(m, drop)
           rest == NatSub(m, NatShiftLeft(kept, drop))
           half == NatShiftLeft(<<1>>, drop - 1)
           up == \/ NatCompare(rest, half) > 0
                 \/ NatCompare(rest, half) = 0 /\ LimbAt(kept, 1) % 2 = 1
           magnitude == IF m = <<>> THEN 0
                        ELSE IF drop <= 0 THEN NatValue(NatShiftLeft(m, -drop))
                        ELSE NatValue(kept) + (IF up THEN 1 ELSE 0)
       IN  IF a.neg THEN -magnitude ELSE magnitude : a \in {x}} : TRUE

\* round(x, decimals) of a numpy float64 is np.round: x is multiplied by
\* scale = 10^decimals, rounded by np.rint and divided by scale.  The
\* result is the double nearest to NpRound(x, scale) / scale
NpRound(x, scale) == Rint(FloatMul(x, IntFloat(scale)))

\* acc + xs[i] + xs[i + step] + ... over the positions up to `last`, from
\* left to right
RECURSIVE SumEvery(_, _, _, _, _)
SumEvery(xs, i, step, last, acc) ==
    IF i > last THEN acc
    ELSE CHOOSE result \in
           {SumEvery(xs, i + step, step, last, next) :
               next \in {FloatAdd(acc, xs[i])}} : TRUE

\* the n = 2^k running sums r[lo], ..., r[lo + n - 1] added in pairs:
\* ((r0 + r1) + (r2 + r3)) + ((r4 + r5) + (r6 + r7))
RECURSIVE SumInPairs(_, _, _)
SumInPairs(r, lo, n) ==
    IF n = 1 THEN r[lo]
    ELSE FloatAdd(SumInPairs(r, lo, n \div 2),
                  SumInPairs(r, lo + (n \div 2), n \div 2))

\* np.add.reduce on a float64 array: numpy's pairwise sum of the n
\* elements of xs from position lo on.  Fewer than 8 elements are added
\* to 0 from left to right; up to 128 elements are added into 8 running
\* sums, element i into sum i mod 8, the 8 sums are added in pairs and the
\* n mod 8 last elements are added one by one; a longer array is split
\* into two parts, the first a multiple of 8 long
RECURSIVE PairwiseSum(_, _, _)
PairwiseSum(xs, lo, n) ==
    IF n > 128
    THEN CHOOSE res \in
           {FloatAdd(PairwiseSum(xs, lo, n2), PairwiseSum(xs, lo + n2, n - n2)) :
               n2 \in {(n \div 2) - ((n \div 2) % 8)}} : TRUE
    ELSE CHOOSE res \in
           {SumEvery(xs, IF n < 8 THEN lo ELSE lo + n - (n % 8), 1, lo + n - 1,
                     first) :
               first \in
                 {IF n < 8 THEN IntFloat(0) ELSE SumInPairs(r, 1, 8) :
                     r \in {[j \in 1..8 |->
                               IF n < 8 THEN IntFloat(0)
                               ELSE SumEvery(xs, lo + j + 7, 8,
                                             lo + n - (n % 8) - 1,
                                             xs[lo + j - 1])]}}} : TRUE

\* xs.sum() of an array of doubles
FloatSum(xs) ==
    CHOOSE sum \in {PairwiseSum(a, 1, Len(a)) : a \in {xs}} : TRUE

\* np.mean(xs)
FloatMean(xs) ==
    CHOOSE mean \in
      {FloatDiv(FloatSum(a), IntFloat(Len(a))) : a \in {xs}} :
      TRUE

\* the array of floats of a list of integers
FloatArray(values) == [i \in DOMAIN values |-> IntFloat(values[i])]

\* the weights as the code holds them: 0.9 for 90 hundredths
FloatWeights(weights) == [i \in DOMAIN weights |-> FloatOf(weights[i], 100)]

\* np.average(valid_values, weights=valid_weights):
\* np.multiply(a, wgt).sum() / wgt.sum()
FloatAverage(valid_values, valid_weights) ==
    CHOOSE avg \in
      {FloatDiv(FloatSum([i \in DOMAIN a |-> FloatMul(a[i], wgt[i])]),
                FloatSum(wgt)) :
          a \in {FloatArray(valid_values)},
          wgt \in {FloatWeights(valid_weights)}} : TRUE

\* np.var(a): the mean of the squares of a - mean
FloatVar(a, mean) ==
    CHOOSE var \in
      {FloatMean([i \in DOMAIN x |-> FloatMul(x[i], x[i])]) :
          x \in {[i \in DOMAIN a |-> FloatSub(a[i], mean)]}} : TRUE

\* line 95: np.var(valid_values) / (np.mean(valid_values) + 1e-6)
FloatVariance(valid_values) ==
    CHOOSE variance \in
      {FloatDiv(FloatVar(am[1], am[2]), FloatAdd(am[2], FloatOf(1, EpsilonInv))) :
          am \in {<<a, FloatMean(a)>> : a \in {FloatArray(valid_values)}}} : TRUE

\* np.std(values) and np.abs((values - np.mean(values)) / std) > threshold
\* at position i, in doubles (std > 0), for the threshold halves / 2
FloatZScoreExceeds(values, i, halves) ==
    LET n == Len(values)
        S == SumSeq(values)
    IN  \E mean \in {DoubleDiv(DoubleOf(Abs(S)), DoubleOf(n))} :
        \E devs \in {[k \in 1..n |-> AbsDeviation(values[k], S, mean)]} :
        \E squares \in {[k \in 1..n |-> DoubleMul(devs[k], devs[k])]} :
        \E total \in {FloatSum([k \in 1..n |->
                                   [neg |-> FALSE, abs |-> squares[k]]]).abs} :
        \E std \in {DoubleSqrt(DoubleDiv(total, DoubleOf(n)))} :
            DoubleGreater(DoubleDiv(devs[i], std),
                          DoubleDiv(DoubleOf(halves), DoubleOf(2)))

\* whether the exact z-score of position i equals the threshold halves / 2
AtThreshold(values, i, halves) ==
    /\ VarNum(values) > 0
    /\ 4 * (Len(values) * values[i] - SumSeq(values))
          * (Len(values) * values[i] - SumSeq(values))
         = halves * halves * VarNum(values)

(***************************************************************************)
(* GMPValidator._detect_outliers                                           *)
(***************************************************************************)
\* a variant of the z-score pass with the threshold 0
ZScoreIndicesLoose(values) ==
    LET n == Len(values)
        S == SumSeq(values)
    IN  IF VarNum(values) > 0
        THEN {i \in DOMAIN values : (n * values[i] - S) * (n * values[i] - S) > 0}
        ELSE {}

\* Method 1 of a validator whose self.outlier_threshold is t = halves / 2:
\* positions whose z-score |v - mean| / std exceeds t, when std > 0.  With
\* m = S/n and std = sqrt(VarNum)/n:
\* |v - m| / std > t  <=>  (n*v - S)^2 > t^2 * VarNum.  The doubles numpy
\* computes differ from the exact values by a few units in the 16th
\* digit, which decides the comparison only where the two sides are
\* equal; there the comparison is made in doubles.
ZScoreFlags(values, halves) ==
    LET n == Len(values)
        S == SumSeq(values)
    IN  IF VarNum(values) > 0
        THEN {i \in DOMAIN values :
                \/ 4 * (n * values[i] - S) * (n * values[i] - S)
                      > halves * halves * VarNum(values)
                \/ /\ AtThreshold(values, i, halves)
                   /\ FloatZScoreExceeds(values, i, halves)}
        ELSE {}

\* Method 1 with the threshold __init__ sets
ZScoreIndices(values) == ZScoreFlags(values, 2 * outlier_threshold)

\* Method 2: positions outside [q1 - 1.5*iqr, q3 + 1.5*iqr] (times 8)
IqrIndices(values) ==
    LET q1 == Percentile4(values, 25)
        q3 == Percentile4(values, 75)
        iqr == q3 - q1
    IN  {i \in DOMAIN values :
            \/ 8 * values[i] < 2 * q1 - 3 * iqr
            \/ 8 * values[i] > 2 * q3 + 3 * iqr}

\* lines 139-155: the list returned, given the list the z-score pass
\* made.  The IQR list leaves out every observation whose source is in
\* that list (line 150)
CombineMethods(values, sources, outliers) ==
    LET iqr_outliers ==
            Pick(sources,
                 {i \in IqrIndices(values) : sources[i] \notin Range(outliers)},
                 1)
    IN  IF Len(outliers) > Len(values) \div 2 THEN iqr_outliers ELSE outliers

DetectOutliers(values, sources) ==
    IF Len(values) < 3 THEN <<>>
    ELSE CHOOSE returned \in
           {CombineMethods(values, sources, outliers) :
              outliers \in {Pick(sources, ZScoreIndices(values), 1)}} : TRUE

\* _detect_outliers of a validator whose outlier_threshold attribute, read
\* at line 134 of every call, is halves / 2
DetectOutliersAt(values, sources, halves) ==
    IF Len(values) < 3 THEN <<>>
    ELSE CHOOSE returned \in
           {CombineMethods(values, sources, outliers) :
              outliers \in {Pick(sources, ZScoreFlags(values, halves), 1)}} : TRUE

(***************************************************************************)
(* variance = np.var(valid_values) / (np.mean(valid_values) + 1e-6)        *)
(*                                                                         *)
(* With n values of sum S and N = VarNum (n^2 times the population         *)
(* variance) and E = EpsilonInv, the quotient is exactly                   *)
(*     variance = N * E / (n * (S * E + n)).                               *)
(* Its numerator and denominator do not fit a machine integer, so the      *)
(* quotient is never formed: it is compared with a fraction p / q, and     *)
(* rounded by locating it between two such fractions.                      *)
(***************************************************************************)
\* the largest magnitude Excess reports
Saturated == 2 ^ 30

\* N * q - p * M for N, p >= 0 and M, q > 0, computed from the quotients
\* and remainders of N / M and p / q; saturated when the quotients differ
\* by two or more (its magnitude is then above M * q)
Excess(N, M, p, q) ==
    LET a == N \div M
        r == N % M
        b == p \div q
        s == p % q
    IN  IF a - b >= 2 THEN Saturated
        ELSE IF a - b <= -2 THEN -Saturated
        ELSE (a - b) * M * q + r * q - s * M

Sign(x) == IF x < 0 THEN -1 ELSE IF x > 0 THEN 1 ELSE 0

\* the sign of variance - p / q  (q > 0)
VarianceCmp(values, p, q) ==
    LET n == Len(values)
        S == SumSeq(values)
        N == VarNum(values)
        C == Abs(p) * n * n
        f == C \div EpsilonInv
        g == C % EpsilonInv
    IN  IF S >= 0
        THEN \* S * E + n > 0: variance <= p / q  <=>  E * (N*q - p*n*S) <= p * n^2
             IF p < 0 THEN 1
             ELSE LET X == IF S = 0 THEN N * q ELSE Excess(N, n * S, p, q)
                  IN  IF X < f THEN -1
                      ELSE IF X > f THEN 1
                      ELSE IF g > 0 THEN -1 ELSE 0
        ELSE \* S * E + n < 0: variance = -u with u = N * E / (n * (|S| * E - n))
             IF p >= 0 THEN (IF N = 0 /\ p = 0 THEN 0 ELSE -1)
             ELSE LET X == Excess(N, n * (-S), -p, q)
                  IN  IF X > -f THEN -1
                      ELSE IF X < -f THEN 1
                      ELSE IF g > 0 THEN -1 ELSE 0

\* round(x, 3) in thousandths, for a quantity x known by Cmp(h) = the sign
\* of x - h / 2000: the R with (2R - 1) / 2000 <= x <= (2R + 1) / 2000,
\* the even one on a tie; searched from the estimate R
RECURSIVE RoundSearch(_, _)
RoundSearch(Cmp(_), R) ==
    LET lo == Cmp(2 * R - 1)
        hi == Cmp(2 * R + 1)
    IN  IF lo < 0 THEN RoundSearch(Cmp, R - 1)
        ELSE IF hi > 0 THEN RoundSearch(Cmp, R + 1)
        ELSE IF hi = 0 THEN (IF R % 2 = 0 THEN R ELSE R + 1)
        ELSE IF lo = 0 THEN (IF R % 2 = 0 THEN R ELSE R - 1)
        ELSE R

\* 1000 * N / M rounded down, for N >= 0 and M > 0
Thousandths(N, M) == 1000 * (N \div M) + (1000 * (N % M)) \div M

\* round(variance, 3), in thousandths; the float64 quotient decides where
\* the exact one lies halfway between two thousandths
RoundVariance(values) ==
    LET n == Len(values)
        S == SumSeq(values)
        N == VarNum(values)
        big == 1000 * EpsilonInv
    IN  IF S = 0
        THEN \* variance = N * E / n^2
             LET whole == (big \div (n * n)) * N
                 num == (big % (n * n)) * N
                 t == whole + (num \div (n * n))
                 r == num % (n * n)
             IN  IF 2 * r < n * n THEN t
                 ELSE IF 2 * r > n * n THEN t + 1
                 ELSE NpRound(FloatVariance(values), 1000)
        ELSE CHOOSE rounded \in
               {IF \/ VarianceCmp(values, 2 * R + 1, 2000) = 0
                   \/ VarianceCmp(values, 2 * R - 1, 2000) = 0
                THEN NpRound(FloatVariance(values), 1000)
                ELSE R :
                   R \in {RoundSearch(LAMBDA h : VarianceCmp(values, h, 2000),
                                      Sign(S) * Thousandths(N, n * Abs(S)))}} : TRUE

(***************************************************************************)
(* GMPValidator._calculate_confidence_score                                *)
(***************************************************************************)
\* 500 * n * (0.3 * source_confidence + 0.2 * weight_confidence
\*            + 0.2 * time_confidence)
\* with source_confidence = min(n / 5, 1), weight_confidence =
\* np.mean(weights) (weights in hundredths) and time_confidence = 1
\* a variant whose time_confidence is 0
BaseConfidenceNoTime(weights) ==
    LET n == Len(weights)
    IN  30 * n * Min(n, 5) + SumSeq(weights)

BaseConfidence500n(weights) ==
    LET n == Len(weights)
    IN  30 * n * Min(n, 5) + SumSeq(weights) + 100 * n

\* a variant without the final min(confidence_score, 1.0)
ConfidenceCmpUncapped(values, weights, h) ==
    LET n == Len(values)
        base == BaseConfidence500n(weights)
        tn == max_variance_threshold[1]
        td == max_variance_threshold[2]
    IN  IF VarianceCmp(values, tn, td) > 0
        THEN Sign(4 * base - h * n)
        ELSE -VarianceCmp(values, 4 * base + 600 * n - h * n, 2000 * n)

\* the sign of confidence_score - h / 2000.  variance_confidence is
\* max(0, 1 - variance / 0.3), so that 0.3 * variance_confidence is 0 when
\* variance > 0.3 and 0.3 - variance otherwise; the sum is capped at 1.0
ConfidenceCmp(values, weights, h) ==
    LET n == Len(values)
        base == BaseConfidence500n(weights)
        tn == max_variance_threshold[1]
        td == max_variance_threshold[2]
        raw == IF VarianceCmp(values, tn, td) > 0
               THEN Sign(4 * base - h * n)
               ELSE -VarianceCmp(values, 4 * base + 600 * n - h * n, 2000 * n)
    IN  IF h > 2000 THEN -1
        ELSE IF h = 2000 THEN (IF raw >= 0 THEN 0 ELSE -1)
        ELSE raw

\* lines 165-185 in doubles: min(source_count / 5.0, 1.0),
\* max(0, 1 - variance / self.max_variance_threshold), np.mean(weights),
\* the sum of the four products from left to right, and the cap at 1.0
FloatConfidence(values, weights) ==
    CHOOSE confidence_score \in
      {IF FloatCompare(score, IntFloat(1)) > 0 THEN IntFloat(1) ELSE score :
          score \in
            {FloatAdd(FloatAdd(FloatAdd(
                 FloatMul(FloatOf(3, 10),
                          IF Len(values) >= 5 THEN IntFloat(1)
                          ELSE FloatOf(Len(values), 5)),
                 FloatMul(FloatOf(3, 10), variance_confidence)),
                 FloatMul(FloatOf(2, 10), FloatMean(FloatWeights(weights)))),
                 FloatMul(FloatOf(2, 10), IntFloat(1))) :
                variance_confidence \in
                  {IF FloatSign(rest) > 0 THEN rest ELSE IntFloat(0) :
                      rest \in
                        {FloatSub(IntFloat(1),
                                  FloatDiv(FloatVariance(values),
                                           FloatOf(max_variance_threshold[1],
                                                   max_variance_threshold[2])))}}}} :
        TRUE

\* a variant that rounds the sum without the final min(confidence_score, 1.0)
RoundConfidenceUncapped(values, weights) ==
    LET base == RoundHalfEven(2 * BaseConfidence500n(weights), Len(values))
        estimate ==
            IF VarianceCmp(values, max_variance_threshold[1],
                           max_variance_threshold[2]) > 0
            THEN base
            ELSE base + 300 - RoundVariance(values)
    IN  RoundSearch(LAMBDA h : ConfidenceCmpUncapped(values, weights, h),
                    estimate)

\* round(confidence_score, 3), in thousandths.  Where the exact sum lies
\* halfway between two thousandths, the float64 sum is just above or just
\* below it, and that decides the rounding
RoundConfidence(values, weights) ==
    LET base == RoundHalfEven(2 * BaseConfidence500n(weights), Len(values))
        estimate ==
            IF VarianceCmp(values, max_variance_threshold[1],
                           max_variance_threshold[2]) > 0
            THEN base
            ELSE base + 300 - RoundVariance(values)
    IN  CHOOSE rounded \in
          {IF \/ ConfidenceCmp(values, weights, 2 * R + 1) = 0
              \/ ConfidenceCmp(values, weights, 2 * R - 1) = 0
           THEN NpRound(FloatConfidence(values, weights), 1000)
           ELSE R :
              R \in {RoundSearch(LAMBDA h : ConfidenceCmp(values, weights, h),
                                 Min(1000, estimate))}} : TRUE

(***************************************************************************)
(* schemas.GMPValidationResult (a pydantic model)                          *)
(***************************************************************************)
\* the fields the schema declares without a default
RequiredFields ==
    {"is_valid", "confidence_score", "validation_source", "validation_timestamp"}

\* a variant of the schema in which every field the validator leaves out
\* has a default
ConstructionRaisesOutOfRange(kwargs) ==
    \/ kwargs.confidence_score < 0
    \/ kwargs.confidence_score > 1000

\* GMPValidationResult(**kwargs): pydantic raises ValidationError when a
\* required field is missing or confidence_score is outside [0, 1]
\* (Field(..., ge=0.0, le=1.0); confidence_score is in thousandths here)
ConstructionRaises(kwargs) ==
    \/ ~(RequiredFields \subseteq DOMAIN kwargs)
    \/ kwargs.confidence_score < 0
    \/ kwargs.confidence_score > 1000

(***************************************************************************)
(* GMPValidator._calculate_validated_gmp                                   *)
(***************************************************************************)
WeightOf(source) ==
    IF source \in DOMAIN source_weights THEN source_weights[source]
    ELSE default_weight

\* lines 79-86: the positions whose source is not in the outlier list are
\* kept; when fewer than min_sources remain, every position is kept and
\* the outlier list is emptied
\* a variant that falls back only when nothing at all is kept
RemoveOutliersWhenEmpty(sources, outliers) ==
    LET kept == {i \in DOMAIN sources : sources[i] \notin Range(outliers)}
    IN  IF Cardinality(kept) < min_sources - 1
        THEN [valid_indices |-> DOMAIN sources, outliers |-> <<>>]
        ELSE [valid_indices |-> kept, outliers |-> outliers]

RemoveOutliers(sources, outliers) ==
    LET kept == {i \in DOMAIN sources : sources[i] \notin Range(outliers)}
    IN  IF Cardinality(kept) < min_sources
        THEN [valid_indices |-> DOMAIN sources, outliers |-> <<>>]
        ELSE [valid_indices |-> kept, outliers |-> outliers]

\* a variant that ignores the weights
UnweightedGmp(valid_values, valid_weights) ==
    RoundHalfEven(100 * SumSeq(valid_values), Len(valid_values))

\* round(np.average(valid_values, weights=valid_weights), 2), in
\* hundredths.  The exact average is num / (100 * den); where it lies
\* halfway between two hundredths the float64 average decides
WeightedGmp(valid_values, valid_weights) ==
    LET num == 100 * SumSeq([i \in DOMAIN valid_values |->
                                valid_weights[i] * valid_values[i]])
        den == SumSeq(valid_weights)
    IN  IF 2 * (num % den) = den
        THEN NpRound(FloatAverage(valid_values, valid_weights), 100)
        ELSE RoundHalfEven(num, den)

\* a variant that gates on the rounded variance and confidence
IsReliableRounded(valid_values, valid_weights) ==
    /\ Len(valid_values) >= min_sources
    /\ RoundVariance(valid_values) <= 300
    /\ RoundConfidence(valid_values, valid_weights) >= 600

IsReliable(valid_values, valid_weights) ==
    /\ Len(valid_values) >= min_sources
    /\ VarianceCmp(valid_values, max_variance_threshold[1],
                   max_variance_threshold[2]) <= 0
    /\ ConfidenceCmp(valid_values, valid_weights,
                     (2000 * min_confidence[1]) \div min_confidence[2]) >= 0

\* the call's locals (the list _detect_outliers returned, the positions
\* kept) and the keyword arguments handed to GMPValidationResult, given
\* the list _detect_outliers returned
ValidatedGmpGiven(ipo_id, gmp_records, detected) ==
    LET values == [i \in DOMAIN gmp_records |-> gmp_records[i].gmp_value]
        sources == [i \in DOMAIN gmp_records |-> gmp_records[i].source]
        weights == [i \in DOMAIN gmp_records |-> WeightOf(gmp_records[i].source)]
        removal == RemoveOutliers(sources, detected)
        valid_values == Pick(values, removal.valid_indices, 1)
        valid_weights == Pick(weights, removal.valid_indices, 1)
    IN  [detected |-> detected,
         valid_indices |-> removal.valid_indices,
         fields |->
            [ipo_id |-> ipo_id,
             validated_gmp |-> WeightedGmp(valid_values, valid_weights),
             confidence_score |-> RoundConfidence(valid_values, valid_weights),
             sources_count |-> Cardinality(removal.valid_indices),
             is_reliable |-> IsReliable(valid_values, valid_weights),
             variance |-> RoundVariance(valid_values),
             outliers |-> removal.outliers]]

\* _calculate_validated_gmp: _detect_outliers is called once, and the
\* rest works on the list it returned
CalculateValidatedGmp(ipo_id, gmp_records) ==
    CHOOSE result \in
      {ValidatedGmpGiven(ipo_id, gmp_records, detected) :
         detected \in
           {DetectOutliers([i \in DOMAIN gmp_records |-> gmp_records[i].gmp_value],
                           [i \in DOMAIN gmp_records |-> gmp_records[i].source])}} :
      TRUE

(***************************************************************************)
(* GMPValidator.validate_ipo_gmp                                           *)
(***************************************************************************)
\* a variant of the query without the time window
RecentRecordsAnyAge(ipo_id, rows, clock) ==
    SelectSeq(rows, LAMBDA r : r.ipo_id = ipo_id /\ r.is_valid)

\* the rows of the gmp_data table the query selects, in table order
RecentRecords(ipo_id, rows, clock) ==
    SelectSeq(rows, LAMBDA r : /\ r.ipo_id = ipo_id
                               /\ r.timestamp >= clock - time_window_hours
                               /\ r.is_valid)

\* the locals and keyword arguments of the branch validate_ipo_gmp takes
\* on the records it selected
ValidateCall(ipo_id, gmp_records) ==
    IF Len(gmp_records) < min_sources
    THEN [detected |-> <<>>,
          valid_indices |-> {},
          fields |->
             [ipo_id |-> ipo_id,
              validated_gmp |-> 0,
              confidence_score |-> 0,
              sources_count |-> Len(gmp_records),
              is_reliable |-> FALSE,
              variance |-> 0,
              outliers |-> <<>>]]
    ELSE CalculateValidatedGmp(ipo_id, gmp_records)

\* a variant in which the result is built from the keyword arguments and
\* returned
ValidateOutcomeReturned(ipo_id, rows, clock) ==
    CHOOSE outcome \in
      {[status |-> "returned",
        detected |-> call.detected,
        valid_indices |-> call.valid_indices,
        fields |-> call.fields] :
          call \in {ValidateCall(ipo_id, RecentRecords(ipo_id, rows, clock))}} :
      TRUE

\* what a call of validate_ipo_gmp leaves: the locals of
\* _calculate_validated_gmp (none when it is not called), the keyword
\* arguments of the result it builds, and whether building it raised
ValidateOutcome(ipo_id, rows, clock) ==
    CHOOSE outcome \in
      {[status |-> IF ConstructionRaises(call.fields) THEN "raised"
                   ELSE "returned",
        detected |-> call.detected,
        valid_indices |-> call.valid_indices,
        fields |-> call.fields] :
          call \in {ValidateCall(ipo_id, RecentRecords(ipo_id, rows, clock))}} :
      TRUE

NoFields ==
    [ipo_id |-> 0, validated_gmp |-> 0, confidence_score |-> 0,
     sources_count |-> 0, is_reliable |-> FALSE, variance |-> 0,
     outliers |-> <<>>]

NoValidation ==
    [status |-> "none", detected |-> <<>>, valid_indices |-> {},
     fields |-> NoFields]

NoSpike == [status |-> "none"]

IpoIds == {1, 2}

ValidateIpoGmp(ipo_id) ==
    /\ validation' = ValidateOutcome(ipo_id, db, now)
    /\ UNCHANGED <<db, now, spike>>
    /\ UNCHANGED serviceVars

(***************************************************************************)
(* The batches the validator is run on                                     *)
(***************************************************************************)
MaxBatch == 6

\* a gmp_data row saved by DataFetcher._save_source_data
Row(ipo_id, source, gmp_value, timestamp) ==
    [ipo_id |-> ipo_id, source |-> source, gmp_value |-> gmp_value,
     timestamp |-> timestamp, is_valid |-> TRUE]

\* the observations generated batches are made of: an official source, a
\* scraped aggregator and a source without a configured weight
Observations ==
    <<<<"nse", -1>>, <<"nse", 0>>, <<"nse", 1>>,
      <<"chittorgarh", -1>>, <<"chittorgarh", 0>>, <<"chittorgarh", 1>>,
      <<"unlisted", -1>>, <<"unlisted", 0>>, <<"unlisted", 1>>>>

\* the non-decreasing sequences of k positions of Observations, from m on:
\* every batch of k observations up to the order of its rows
RECURSIVE Choices(_, _)
Choices(k, m) ==
    IF k = 0 THEN {<<>>}
    ELSE UNION {{<<i>> \o t : t \in Choices(k - 1, i)} :
                    i \in m..Len(Observations)}

RowsOf(pairs) == [i \in DOMAIN pairs |-> Row(1, pairs[i][1], pairs[i][2], 0)]

GeneratedBatches ==
    {RowsOf([i \in DOMAIN c |-> Observations[c[i]]]) :
        c \in UNION {Choices(k, 1) : k \in 0..MaxBatch}}

\* spec.md section 8, "Outlier exclusion"
OutlierExampleBatch ==
    RowsOf(<<<<"chittorgarh", 10>>, <<"ipowatch", 11>>, <<"investorgain", 9>>,
             <<"applynse", 10>>, <<"nse", 1000>>>>)

\* four well-weighted sources whose dispersion is just above 0.3
BoundaryBatch ==
    RowsOf(<<<<"nse", 764>>, <<"bse", 764>>, <<"chittorgarh", 734>>,
             <<"ipowatch", 734>>>>)

\* five sources, one of them 3 below the four others: its exact z-score
\* is 2, the threshold
ThresholdBatch ==
    RowsOf(<<<<"chittorgarh", 2>>, <<"ipowatch", 5>>, <<"investorgain", 5>>,
             <<"applynse", 5>>, <<"nse", 5>>>>)

\* ten rows, two of them 9 above the eight others: their exact z-score is
\* 2, the threshold, and the sums run over 8 elements or more
LongThresholdBatch ==
    RowsOf(<<<<"chittorgarh", 13>>, <<"ipowatch", 13>>, <<"nse", 4>>,
             <<"nse", 4>>, <<"bse", 4>>, <<"bse", 4>>, <<"nse", 4>>,
             <<"nse", 4>>, <<"bse", 4>>, <<"bse", 4>>>>)

Batches ==
    GeneratedBatches
        \cup {OutlierExampleBatch, BoundaryBatch, ThresholdBatch,
              LongThresholdBatch}

Init ==
    /\ db \in Batches
    /\ now = 0
    /\ validation = NoValidation
    /\ spike = NoSpike
    /\ ServicesIdle

Next == \E ipo_id \in IpoIds : ValidateIpoGmp(ipo_id)

Spec == Init /\ [][Next]_vars

(***************************************************************************)
(* _detect_outliers under other thresholds (specification SpecOutliers)    *)
(*                                                                         *)
(* outlier_threshold is an attribute of the validator object, set to 2.0   *)
(* by __init__ and read at every call.  With 2.0 the z-score pass never    *)
(* flags more than half of a batch, so the fallback of line 154 is taken   *)
(* only by a validator whose attribute was set lower.                      *)
(***************************************************************************)
\* the thresholds tried, in halves: 0.5, 1.0 and the 2.0 of __init__
OutlierThresholds == {1, 2, 2 * outlier_threshold}

BatchValues == [i \in DOMAIN db |-> db[i].gmp_value]

BatchSources == [i \in DOMAIN db |-> db[i].source]

\* _detect_outliers(values, sources) on the rows of the table
DetectOutliersCall(halves) ==
    /\ validation' = [status |-> "detected",
                      threshold |-> halves,
                      detected |-> DetectOutliersAt(BatchValues, BatchSources,
                                                    halves)]
    /\ UNCHANGED <<db, now, spike>>
    /\ UNCHANGED serviceVars

InitOutliers ==
    /\ db \in Batches
    /\ now = 0
    /\ validation = NoValidation
    /\ spike = NoSpike
    /\ ServicesIdle

NextOutliers == \E halves \in OutlierThresholds : DetectOutliersCall(halves)

SpecOutliers == InitOutliers /\ [][NextOutliers]_vars

FallbackOmitsFlagged ==
    /\ validation.status = "detected"
    /\ 2 * Cardinality(ZScoreFlags(BatchValues, validation.threshold))
          > Len(BatchValues)
    /\ \E i \in IqrIndices(BatchValues) :
          /\ i \in ZScoreFlags(BatchValues, validation.threshold)
          /\ BatchSources[i] \notin Range(validation.detected)

\* a call in which the fallback was taken and the claim's rule held
FallbackTaken ==
    /\ validation.status = "detected"
    /\ Len(BatchValues) >= 3
    /\ 2 * Cardinality(ZScoreFlags(BatchValues, validation.threshold))
          > Len(BatchValues)
    /\ validation.detected = Pick(BatchSources, IqrIndices(BatchValues), 1)

(***************************************************************************)
(* GMPValidator.detect_gmp_spike                                           *)
(***************************************************************************)
\* spike_threshold: float = 8.0 (percent)
default_spike_threshold == 8

\* the look-back of the first query, in hours
spike_window_hours == 24

\* the age a row must have to count as the earlier value, in hours
comparison_hours == 6

\* the first query: the ipo's valid rows of the last 24 hours, newest
\* first, at most 10 (only their number is used)
SpikeWindowCount(ipo_id, rows, clock) ==
    Min(10, Len(SelectSeq(rows, LAMBDA r : /\ r.ipo_id = ipo_id
                                           /\ r.timestamp >= clock - spike_window_hours
                                           /\ r.is_valid)))

\* order_by(GMPData.timestamp.desc()).limit(k) on the rows `records`: the
\* sets of positions the query can return.  It returns the k newest rows;
\* among rows of equal timestamp the database chooses
LimitChoices(records, k) ==
    {I \in SUBSET DOMAIN records :
        /\ Cardinality(I) = Min(k, Len(records))
        /\ \A i \in I : \A j \in DOMAIN records \ I :
              records[j].timestamp <= records[i].timestamp}

\* the rows at the positions I, newest first (rows of equal timestamp in
\* the order of the table)
RECURSIVE NewestFirst(_, _)
NewestFirst(records, I) ==
    IF I = {} THEN <<>>
    ELSE LET first == CHOOSE i \in I : \A j \in I :
                          \/ records[j].timestamp < records[i].timestamp
                          \/ records[j].timestamp = records[i].timestamp /\ i <= j
         IN  <<records[first]>> \o NewestFirst(records, I \ {first})

\* the third query (lines 225-235): the lists of gmp values it can give,
\* those of the 5 newest valid rows of the ipo that are at least 6 hours
\* old
OlderValues(ipo_id, rows, clock) ==
    LET older == SelectSeq(rows, LAMBDA r : /\ r.ipo_id = ipo_id
                                            /\ r.timestamp <= clock - comparison_hours
                                            /\ r.is_valid)
    IN  {[i \in DOMAIN NewestFirst(older, I) |->
             NewestFirst(older, I)[i].gmp_value] : I \in LimitChoices(older, 5)}

\* line 242 in doubles: ((current_gmp - previous_gmp) / previous_gmp) * 100
\* for current_gmp = validated_gmp / 100 and previous_gmp =
\* statistics.mean(older), the double nearest to total / count
FloatPercentageChange(validated_gmp, total, count) ==
    CHOOSE percentage_change \in
      {FloatMul(FloatDiv(FloatSub(FloatOf(validated_gmp, 100), previous_gmp),
                         previous_gmp),
                IntFloat(100)) :
          previous_gmp \in {FloatOf(total, count)}} : TRUE

\* lines 234-254: the comparison of current_gmp (hundredths) with
\* previous_gmp = mean(older).  percentage_change is
\* (current - previous) / previous * 100 = (k * current - 100 * sum) / sum
\* for k older values of sum `sum`, kept as numerator and denominator.
\* Where it is exactly the threshold in magnitude, the float64 value of
\* line 242 is compared with it
CompareWithPrevious(ipo_id, fields, older, spike_threshold) ==
    LET total == SumSeq(older)
        change == Len(older) * fields.validated_gmp - 100 * total
    IN  IF total <= 0 THEN [status |-> "no_event"]
        ELSE IF \/ Abs(change) > spike_threshold * total
                \/ /\ Abs(change) = spike_threshold * total
                   /\ FloatCompare(
                          FloatAbs(FloatPercentageChange(fields.validated_gmp,
                                                         total, Len(older))),
                          IntFloat(spike_threshold)) >= 0
        THEN [status |-> "event",
              ipo_id |-> ipo_id,
              previous_gmp |-> <<total, Len(older)>>,
              current_gmp |-> fields.validated_gmp,
              percentage_change |-> <<change, total>>,
              spike_type |-> IF change > 0 THEN "increase" ELSE "decrease",
              confidence_score |-> fields.confidence_score]
        ELSE [status |-> "no_event"]

\* what a call of detect_gmp_spike returns ("no_event" is None) when the
\* third query gives `older`, or that it raised because validate_ipo_gmp
\* did
SpikeOutcome(ipo_id, rows, clock, spike_threshold, older) ==
    IF SpikeWindowCount(ipo_id, rows, clock) < 2 THEN [status |-> "no_event"]
    ELSE CHOOSE outcome \in
           {IF current_validation.status = "raised" THEN [status |-> "raised"]
            ELSE IF older = <<>> THEN [status |-> "no_event"]
            ELSE CompareWithPrevious(ipo_id, current_validation.fields, older,
                                     spike_threshold) :
               current_validation \in {ValidateOutcome(ipo_id, rows, clock)}} :
           TRUE

\* the call as TaskScheduler.check_gmp_spikes makes it, with the default
\* threshold; validate_ipo_gmp is called once two rows are in the window
DetectGmpSpike(ipo_id) ==
    /\ \E older \in OlderValues(ipo_id, db, now) :
          spike' = SpikeOutcome(ipo_id, db, now, default_spike_threshold, older)
    /\ validation' = IF SpikeWindowCount(ipo_id, db, now) < 2 THEN validation
                     ELSE ValidateOutcome(ipo_id, db, now)
    /\ UNCHANGED <<db, now>>
    /\ UNCHANGED serviceVars

(***************************************************************************)
(* DataFetcher._save_source_data                                           *)
(*                                                                         *)
(* A name is a sequence of characters.  An item of `data` is a dict: a     *)
(* record with the keys the dict has (a gmp that is None is a missing      *)
(* key).  The parsers give every item a name and a gmp.                    *)
(***************************************************************************)
\* str.lower() on the letters
LowerCase ==
    [A |-> "a", B |-> "b", C |-> "c", D |-> "d", E |-> "e", F |-> "f",
     G |-> "g", H |-> "h", I |-> "i", J |-> "j", K |-> "k", L |-> "l",
     M |-> "m", N |-> "n", O |-> "o", P |-> "p", Q |-> "q", R |-> "r",
     S |-> "s", T |-> "t", U |-> "u", V |-> "v", W |-> "w", X |-> "x",
     Y |-> "y", Z |-> "z"]

Lower(ch) == IF ch \in DOMAIN LowerCase THEN LowerCase[ch] ELSE ch

\* an ipos row
Ipo(id, name, status, prices, stored) ==
    [id |-> id, name |-> name, status |-> status,
     issue_price_min |-> prices[1], issue_price_max |-> prices[2],
     current_gmp |-> stored[1], confidence_score |-> stored[2],
     gmp_percentage |-> stored[3], is_profitable |-> stored[4]]

\* the column defaults of models.IPO
StoredDefaults == <<0, 0, [num |-> 0, den |-> 1], FALSE>>

\* IPO.name.ilike(f"%{pattern}%") for names of letters, digits and
\* spaces: the name contains the pattern, whatever the case of the letters
ILikeContains(name, pattern) ==
    \E k \in 0..(Len(name) - Len(pattern)) :
        \A j \in 1..Len(pattern) : Lower(name[k + j]) = Lower(pattern[j])

\* the primary key the database gives a new ipos row
NextIpoId(ipos) ==
    IF ipos = <<>> THEN 1
    ELSE 1 + (CHOOSE m \in {ipos[j].id : j \in DOMAIN ipos} :
                 \A j \in DOMAIN ipos : ipos[j].id <= m)

\* what asyncio.gather(..., return_exceptions=True) hands back for an
\* adapter: an Exception it raised,
Raised == [kind |-> "raised", items |-> <<>>]

\* the CancelledError of an adapter that was cancelled (a BaseException,
\* not an Exception),
Cancelled == [kind |-> "cancelled", items |-> <<>>]

\* the list it returned,
Returned(items) == [kind |-> "list", items |-> items]

\* or what _fetch_source_data returns when cache_manager.get(...), a
\* coroutine function (utils/cache.py:72) called without await, hands it a
\* coroutine object: the object is truthy and is returned as cached_data
Coroutine == [kind |-> "coroutine", items |-> <<>>]

\* lines 305-314: the gmp_data row added to the session for an item that
\* has a gmp, stamped with datetime.utcnow()
GmpEntry(ipo_id, source_name, ipo_data, clock) ==
    IF "gmp" \in DOMAIN ipo_data
    THEN <<Row(ipo_id, source_name, ipo_data.gmp, clock)>>
    ELSE <<>>

\* where a call of _save_source_data stands: at item i, with its ipo still
\* to be looked up (found = <<>>) or just committed by line 302 (found =
\* <<id>>)
FirstItem == [i |-> 1, found |-> <<>>]

\* the loop of lines 288-314 from the place `at` on, up to the next commit:
\* the tables that commit can leave, and the place the call goes on from
\* (rest = <<>> when the call is over).  ipos and rows are the committed
\* tables, pending the gmp_data rows added to the session and not yet
\* committed.  An item whose name no ipo contains adds an ipo, and line 302
\* commits it together with the pending rows; .first() takes any one of
\* the ipos that match; after the last item line 316 commits the pending
\* rows; an item without a name raises KeyError, which is caught, and the
\* rollback drops the pending rows
RECURSIVE SaveItemsFrom(_, _, _, _, _, _, _)
SaveItemsFrom(ipos, rows, pending, source_name, items, at, clock) ==
    IF at.i > Len(items)
    THEN {[ipos |-> ipos, rows |-> rows \o pending, rest |-> <<>>]}
    ELSE IF at.found # <<>>
    THEN SaveItemsFrom(ipos, rows,
                       pending \o GmpEntry(at.found[1], source_name,
                                           items[at.i], clock),
                       source_name, items,
                       [i |-> at.i + 1, found |-> <<>>], clock)
    ELSE IF "name" \notin DOMAIN items[at.i]
    THEN {[ipos |-> ipos, rows |-> rows, rest |-> <<>>]}
    ELSE IF \A j \in DOMAIN ipos : ~ILikeContains(ipos[j].name, items[at.i].name)
    THEN {[ipos |-> Append(ipos, Ipo(NextIpoId(ipos), items[at.i].name,
                                     "upcoming", <<0, 0>>, StoredDefaults)),
           rows |-> rows \o pending,
           rest |-> <<[i |-> at.i, found |-> <<NextIpoId(ipos)>>]>>]}
    ELSE UNION {SaveItemsFrom(ipos, rows,
                              pending \o GmpEntry(ipos[j].id, source_name,
                                                  items[at.i], clock),
                              source_name, items,
                              [i |-> at.i + 1, found |-> <<>>], clock) :
                   j \in {k \in DOMAIN ipos :
                             ILikeContains(ipos[k].name, items[at.i].name)}}

\* _save_source_data from the place `at` on, up to its next commit.
\* Iterating what is not a list (the coroutine object _fetch_source_data
\* returns when cache_manager.get, a coroutine function, is called without
\* await; an exception object) raises TypeError, which is caught, and the
\* session is rolled back
SaveSourceData(ipos, rows, source_name, data, at, clock) ==
    IF data.kind # "list" THEN {[ipos |-> ipos, rows |-> rows, rest |-> <<>>]}
    ELSE SaveItemsFrom(ipos, rows, <<>>, source_name, data.items, at, clock)

\* the keys of DataFetcher.sources, in their order
fetcher_sources == <<"chittorgarh", "ipowatch", "investorgain", "applynse">>

\* an item as the parsers build it
GmpObservation(name, gmp) == [name |-> name, gmp |-> gmp]

\* two ipo names
Alpha == <<"A", "l", "p", "h", "a">>

Gamma == <<"G", "a", "m", "m", "a">>

(***************************************************************************)
(* The table over time (specification SpecSpike)                           *)
(***************************************************************************)
MaxRows == 3

MaxClock == 30

ClockStep == 6

\* the observations saved: name of the ipo, source, gmp value
SpikeObservations ==
    {<<Alpha, "nse", 0>>, <<Alpha, "nse", 20>>, <<Alpha, "nse", 30>>,
     <<Gamma, "nse", 30>>}

\* a call of _save_source_data with one item, up to its first commit: the
\* ipo is found by name and the gmp_data row, stamped with the clock, is
\* committed with line 316; or the ipo is added to the ipos table and
\* committed with line 302, and the call goes on from there
SaveGmpData(name, source, gmp_value) ==
    /\ Len(db) < MaxRows
    /\ fetcher.pc = "idle"
    /\ \E saved \in SaveSourceData(ipo_table, db, source,
                                    Returned(<<GmpObservation(name, gmp_value)>>),
                                    FirstItem, now) :
          /\ db' = saved.rows
          /\ ipo_table' = saved.ipos
          /\ fetcher' = IF saved.rest = <<>> THEN fetcher
                        ELSE [pc |-> "saving",
                              source_name |-> source,
                              data |-> Returned(<<GmpObservation(name, gmp_value)>>),
                              saving |-> saved.rest]
    /\ UNCHANGED <<now, validation, spike>>
    /\ UNCHANGED <<profit, cycle, realtime, all_run, scheduler, limiter>>

\* a call of _save_source_data goes on after the commit of line 302, up
\* to its next commit; the rows it adds are stamped with the clock as it is
\* then.  The call was made directly (pc "saving") or by the loop of
\* fetch_all_sources for the result it has just put into results
SaveSourceDataCommit ==
    /\ fetcher.pc \in {"saving", "merging"}
    /\ fetcher.saving # <<>>
    /\ \E saved \in
            IF fetcher.pc = "saving"
            THEN SaveSourceData(ipo_table, db, fetcher.source_name,
                                fetcher.data, fetcher.saving[1], now)
            ELSE SaveSourceData(ipo_table, db,
                                fetcher_sources[Len(fetcher.results)],
                                fetcher.results[Len(fetcher.results)],
                                fetcher.saving[1], now) :
          /\ db' = saved.rows
          /\ ipo_table' = saved.ipos
          /\ fetcher' = IF fetcher.pc = "saving" /\ saved.rest = <<>>
                        THEN FetcherIdle
                        ELSE [fetcher EXCEPT !.saving = saved.rest]
    /\ UNCHANGED <<now, validation, spike>>
    /\ UNCHANGED <<profit, cycle, realtime, all_run, scheduler, limiter>>

\* datetime.utcnow() advances
Tick ==
    /\ now + ClockStep <= MaxClock
    /\ now' = now + ClockStep
    /\ UNCHANGED <<db, validation, spike>>
    /\ UNCHANGED serviceVars

InitSpike ==
    /\ db = <<>>
    /\ now = 0
    /\ validation = NoValidation
    /\ spike = NoSpike
    /\ ServicesIdle

NextSpike ==
    \/ \E obs \in SpikeObservations : SaveGmpData(obs[1], obs[2], obs[3])
    \/ SaveSourceDataCommit
    \/ Tick
    \/ \E ipo_id \in IpoIds : ValidateIpoGmp(ipo_id)
    \/ \E ipo_id \in IpoIds : DetectGmpSpike(ipo_id)

SpecSpike == InitSpike /\ [][NextSpike]_vars

(***************************************************************************)
(* Properties of the validator (specification Spec)                        *)
(***************************************************************************)
\* the last call of validate_ipo_gmp.  Under Spec the table and the clock
\* do not change, so the rows the call selected are the rows selected now
Validated == validation.status # "none"

CallRecords == RecentRecords(validation.fields.ipo_id, db, now)

CallValues == [i \in DOMAIN CallRecords |-> CallRecords[i].gmp_value]

CallSources == [i \in DOMAIN CallRecords |-> CallRecords[i].source]

RetainedValues == Pick(CallValues, validation.valid_indices, 1)

\* the weights the claims speak of: the configured weight of a source,
\* 0.5 for a source without one (hundredths)
ClaimedWeights ==
    [i \in DOMAIN CallSources |->
        IF CallSources[i] \in DOMAIN source_weights
        THEN source_weights[CallSources[i]] ELSE 50]

RetainedWeights == Pick(ClaimedWeights, validation.valid_indices, 1)

\* C1: validating [10, 11, 9, 10, 1000] from five distinct sources excludes
\* the source that reported 1000, keeps four observations, and the
\* validated value is the weighted mean of the other four:
\* (10*0.9 + 11*0.85 + 9*0.8 + 10*0.75) / 3.3 = 10.015..., emitted as 10.02
OutlierExampleExcluded ==
    (Validated /\ CallRecords = OutlierExampleBatch)
        => /\ validation.fields.outliers = <<"nse">>
           /\ validation.fields.sources_count = 4
           /\ validation.fields.validated_gmp = 1002

\* C2: with fewer than min_sources observations in the window the call
\* returns normally, with value 0, confidence 0, is_reliable false,
\* source_count the number of observations found and no excluded source
InsufficientDataReturned ==
    (Validated /\ Len(CallRecords) < min_sources)
        => /\ validation.status = "returned"
           /\ validation.fields.validated_gmp = 0
           /\ validation.fields.confidence_score = 0
           /\ validation.fields.is_reliable = FALSE
           /\ validation.fields.sources_count = Len(CallRecords)
           /\ validation.fields.outliers = <<>>

\* C4: with at least min_sources observations the result's source_count is
\* at least min_sources; when removing the outliers would leave fewer,
\* every observation is kept and no source is reported as excluded
RetainedAtLeastMinSources ==
    (Validated /\ Len(CallRecords) >= min_sources)
        => /\ validation.fields.sources_count >= min_sources
           /\ (Cardinality({i \in DOMAIN CallSources :
                               CallSources[i] \notin Range(validation.detected)})
                   < min_sources)
                 => /\ validation.fields.sources_count = Len(CallSources)
                    /\ validation.fields.outliers = <<>>

\* C4 witness: outliers were detected, removing them would have left fewer
\* than min_sources observations, and all observations were kept
RetainedFallbackWitness ==
    /\ Validated
    /\ validation.detected # <<>>
    /\ Cardinality({i \in DOMAIN CallSources :
                       CallSources[i] \notin Range(validation.detected)})
           < min_sources
    /\ validation.fields.sources_count = Len(CallSources)

\* C5: the validated value is sum(w_i * v_i) / sum(w_i) over the retained
\* observations, rounded to 2 decimals (within half a hundredth of it)
ValidatedIsWeightedMean ==
    (Validated /\ Len(CallRecords) >= min_sources)
        => LET A == SumSeq([i \in DOMAIN RetainedValues |->
                               RetainedWeights[i] * RetainedValues[i]])
               W == SumSeq(RetainedWeights)
           IN  2 * Abs(100 * A - validation.fields.validated_gmp * W) <= W

\* C5 witness: retained observations of different values from a source
\* with a configured weight and from a source without one
WeightedMeanWitness ==
    /\ Validated
    /\ \E i, j \in validation.valid_indices :
          /\ CallSources[i] \in DOMAIN source_weights
          /\ CallSources[j] \notin DOMAIN source_weights
          /\ CallValues[i] # CallValues[j]

\* C6 as stated: is_reliable holds exactly when the emitted source_count
\* is >= min_sources, the emitted variance <= 0.3 and the emitted
\* confidence_score >= 0.6
ReliableIffEmitted ==
    Validated
        => (validation.fields.is_reliable
              <=> /\ validation.fields.sources_count >= min_sources
                  /\ validation.fields.variance <= 300
                  /\ validation.fields.confidence_score >= 600)

\* C6 amended: is_reliable holds exactly when the emitted source_count is
\* >= min_sources and the variance and the confidence score, as computed
\* before they are rounded to 3 decimals, are <= 0.3 and >= 0.6
ReliableIffComputed ==
    Validated
        => (validation.fields.is_reliable
              <=> /\ validation.fields.sources_count >= min_sources
                  /\ VarianceCmp(RetainedValues, 3, 10) <= 0
                  /\ ConfidenceCmp(RetainedValues, RetainedWeights, 1200) >= 0)

\* C6 witness: a result that is not reliable although its emitted fields
\* pass the three thresholds (the variance is above 0.3 and rounds to 0.3)
ReliableRoundingWitness ==
    /\ Validated
    /\ ~validation.fields.is_reliable
    /\ validation.fields.sources_count >= min_sources
    /\ validation.fields.variance = 300
    /\ validation.fields.confidence_score >= 600
    /\ VarianceCmp(RetainedValues, 3, 10) > 0

\* C7: the emitted confidence_score lies in [0, 1]
ConfidenceInUnitInterval ==
    Validated
        => /\ validation.fields.confidence_score >= 0
           /\ validation.fields.confidence_score <= 1000

\* C7 witness: a batch with a negative value and a negative mean, whose
\* variance_confidence is above 1 and whose score is capped at 1.0
ConfidenceCappedWitness ==
    /\ Validated
    /\ \E i \in DOMAIN CallValues : CallValues[i] < 0
    /\ validation.fields.variance < 0
    /\ validation.fields.confidence_score = 1000

\* C8: a batch of at least min_sources observations that all carry the
\* same value v gives validated value v, variance 0, no excluded source
\* and is_reliable true
IdenticalValuesReliable ==
    (/\ Validated
     /\ Len(CallRecords) >= min_sources
     /\ \A i, j \in DOMAIN CallValues : CallValues[i] = CallValues[j])
        => /\ validation.fields.validated_gmp = 100 * CallValues[1]
           /\ validation.fields.variance = 0
           /\ validation.fields.outliers = <<>>
           /\ validation.fields.is_reliable

\* C8 witness: two equal observations from sources without a configured
\* weight (the lowest confidence such a batch can get), found reliable
IdenticalValuesWitness ==
    /\ Validated
    /\ Len(CallRecords) = min_sources
    /\ \A i \in DOMAIN CallSources : CallSources[i] \notin DOMAIN source_weights
    /\ \A i, j \in DOMAIN CallValues : CallValues[i] = CallValues[j]
    /\ validation.fields.is_reliable

\* C9: validate_ipo_gmp completes and produces a result record for every
\* batch (no error while computing or constructing it)
ValidationNeverFails == validation.status # "raised"

(***************************************************************************)
(* Properties of the spike detector (specification SpecSpike)              *)
(***************************************************************************)
\* C10: a call of detect_gmp_spike that has a current validated value c
\* (two rows in the 24-hour window, so that validate_ipo_gmp is called) and
\* a baseline p > 0 (the mean of the older rows) emits an event exactly
\* when |(c - p) / p * 100| >= 8; the event says "increase" for a positive
\* change, "decrease" for a negative one, and carries the confidence score
\* of the current validation
SpikeIffThreshold ==
    [][\A ipo_id \in IpoIds :
          (/\ DetectGmpSpike(ipo_id)
           /\ SpikeWindowCount(ipo_id, db, now) >= 2
           /\ \A older \in OlderValues(ipo_id, db, now) :
                 older # <<>> /\ SumSeq(older) > 0)
             => \E older \in OlderValues(ipo_id, db, now) :
                  LET p == SumSeq(older)
                      change == Len(older) * validation'.fields.validated_gmp
                                    - 100 * p
                  IN  /\ (spike'.status = "event")
                            <=> (Abs(change) >= default_spike_threshold * p)
                      /\ (spike'.status = "event")
                            => /\ spike'.spike_type =
                                     IF change > 0 THEN "increase" ELSE "decrease"
                               /\ spike'.confidence_score =
                                     validation'.fields.confidence_score]_vars

\* C11: a call of detect_gmp_spike that has no usable baseline (no row at
\* least 6 hours old, or older rows whose mean is <= 0) returns no event
\* and raises no error
NoBaselineNoEvent ==
    [][\A ipo_id \in IpoIds :
          (/\ DetectGmpSpike(ipo_id)
           /\ \/ OlderValues(ipo_id, db, now) = {<<>>}
              \/ \A older \in OlderValues(ipo_id, db, now) :
                    SumSeq(older) <= 0)
             => spike'.status = "no_event"]_vars

(***************************************************************************)
(* GMPValidator.is_gmp_profitable (specification SpecProfit)               *)
(***************************************************************************)
\* min_profit_percentage: float = 10.0
default_min_profit_percentage == 10

\* min_absolute_profit: float = 20.0
default_min_absolute_profit == 20

\* line 197 in doubles: (gmp_value / issue_price) * 100, for amounts in
\* hundredths
FloatPercentageGain(gmp_value, issue_price) ==
    FloatMul(FloatDiv(FloatOf(gmp_value, 100), FloatOf(issue_price, 100)),
             IntFloat(100))

\* a variant that requires both criteria
IsGmpProfitableBoth(gmp_value, issue_price, min_profit_percentage, min_absolute_profit) ==
    IF issue_price <= 0 THEN FALSE
    ELSE /\ 100 * gmp_value >= min_profit_percentage * issue_price
         /\ gmp_value >= min_absolute_profit

\* lines 192-202, for gmp_value, issue_price and min_absolute_profit in
\* hundredths.  percentage_gain = (gmp_value / issue_price) * 100 is
\* compared with min_profit_percentage; issue_price > 0 there, so the
\* comparison is 100 * gmp_value >= min_profit_percentage * issue_price,
\* except where the two sides are equal: the float64 quotient may then
\* fall short of the threshold (0.29 / 1.0 * 100 is 28.999999999999996)
IsGmpProfitable(gmp_value, issue_price, min_profit_percentage, min_absolute_profit) ==
    IF issue_price <= 0 THEN FALSE
    ELSE LET meets_percentage ==
                 \/ 100 * gmp_value > min_profit_percentage * issue_price
                 \/ /\ 100 * gmp_value = min_profit_percentage * issue_price
                    /\ FloatCompare(FloatPercentageGain(gmp_value, issue_price),
                                    IntFloat(min_profit_percentage)) >= 0
             meets_absolute == gmp_value >= min_absolute_profit
         IN  meets_percentage \/ meets_absolute

MaxGmp == 29

\* the issue prices tried: not positive, tiny, and round prices around
\* which 10 percent is 10, 20, 25 and 100
IssuePrices == {-100, 0, 1, 100, 200, 250, 1000}

\* the criteria tried: the defaults, a stricter pair, and a pair whose
\* percentage 29 a gmp of 29 at price 100 meets exactly while the absolute
\* criterion is out of reach
ProfitCriteria ==
    {<<default_min_profit_percentage, default_min_absolute_profit>>,
     <<25, 22>>, <<29, 1000>>}

CheckProfitable(gmp_value, issue_price, criteria) ==
    /\ profit' = [status |-> "returned",
                  gmp_value |-> gmp_value,
                  issue_price |-> issue_price,
                  min_profit_percentage |-> criteria[1],
                  min_absolute_profit |-> criteria[2],
                  result |-> IsGmpProfitable(100 * gmp_value, 100 * issue_price,
                                             criteria[1], 100 * criteria[2])]
    /\ UNCHANGED validatorVars
    /\ UNCHANGED <<cycle, realtime, fetcher, ipo_table, all_run, scheduler, limiter>>

InitProfit ==
    /\ db = <<>>
    /\ now = 0
    /\ validation = NoValidation
    /\ spike = NoSpike
    /\ ServicesIdle

NextProfit ==
    \E gmp_value \in -1..MaxGmp, issue_price \in IssuePrices,
       criteria \in ProfitCriteria :
          CheckProfitable(gmp_value, issue_price, criteria)

SpecProfit == InitProfit /\ [][NextProfit]_vars

ExactPercentageFallsShort ==
    /\ profit.status = "returned"
    /\ profit.gmp_value = 29
    /\ profit.issue_price = 100
    /\ profit.min_profit_percentage = 29
    /\ ~profit.result

(***************************************************************************)
(* RealTimeIPOService.fetch_all_ipo_data                                   *)
(*                                                                         *)
(* A company name is a sequence of characters.  An adapter's outcome is    *)
(* what asyncio.gather(..., return_exceptions=True) hands back for it:     *)
(* the exception it raised, or the list it returned.  confidence_score     *)
(* of an observation is kept in hundredths.                                *)
(***************************************************************************)
\* key = ipo['company'].lower().replace(' ', '')
CompanyKey(company) ==
    SelectSeq([i \in DOMAIN company |-> Lower(company[i])],
              LAMBDA ch : ch # " ")

\* _remove_duplicates: the first observation of every key is kept
RECURSIVE RemoveDuplicatesFrom(_, _, _)
RemoveDuplicatesFrom(ipos, seen, unique_ipos) ==
    IF ipos = <<>> THEN unique_ipos
    ELSE LET key == CompanyKey(Head(ipos).company)
         IN  IF key \notin seen
             THEN RemoveDuplicatesFrom(Tail(ipos), seen \cup {key},
                                       Append(unique_ipos, Head(ipos)))
             ELSE RemoveDuplicatesFrom(Tail(ipos), seen, unique_ipos)

RemoveDuplicates(ipos) == RemoveDuplicatesFrom(ipos, {}, <<>>)

\* _calculate_risk_level
CalculateRiskLevel(ipo) ==
    LET by_gmp == IF ipo.gmp < 0 THEN 3
                  ELSE IF ipo.gmp < 20 THEN 2
                  ELSE IF ipo.gmp < 50 THEN 1 ELSE 0
        by_confidence == IF ipo.confidence_score < 60 THEN 2
                         ELSE IF ipo.confidence_score < 80 THEN 1 ELSE 0
        by_board == IF ipo.board_type = "SME" THEN 1 ELSE 0
        risk == by_gmp + by_confidence + by_board
    IN  IF risk >= 4 THEN "High" ELSE IF risk >= 2 THEN "Medium" ELSE "Low"

\* _generate_recommendation
GenerateRecommendation(ipo) ==
    IF ipo.gmp >= 50 /\ ipo.confidence_score >= 80 THEN "Strong Buy"
    ELSE IF ipo.gmp >= 20 /\ ipo.confidence_score >= 70 THEN "Buy"
    ELSE IF ipo.gmp >= 0 /\ ipo.confidence_score >= 60 THEN "Hold"
    ELSE "Avoid"

\* _process_ipo_data: the calculated fields are added to every observation
ProcessIpoData(ipos, clock) ==
    [i \in DOMAIN ipos |->
        [company |-> ipos[i].company,
         source |-> ipos[i].source,
         gmp |-> ipos[i].gmp,
         lot_size |-> ipos[i].lot_size,
         confidence_score |-> ipos[i].confidence_score,
         board_type |-> ipos[i].board_type,
         estimated_gain |-> Max(0, ipos[i].gmp * ipos[i].lot_size),
         risk_level |-> CalculateRiskLevel(ipos[i]),
         recommendation |-> GenerateRecommendation(ipos[i]),
         last_updated |-> clock]]

\* lines 93-104 from the results still to be looked at, all_ipos being
\* the list so far: a result that is an Exception is skipped; a list
\* extends all_ipos; a CancelledError is no Exception, is truthy and has no
\* len(), so line 102 raises TypeError
RECURSIVE MergeResults(_, _)
MergeResults(results, all_ipos) ==
    IF results = <<>> THEN [status |-> "merged", all_ipos |-> all_ipos]
    ELSE IF Head(results).kind = "raised"
    THEN MergeResults(Tail(results), all_ipos)
    ELSE IF Head(results).kind = "cancelled"
    THEN [status |-> "raised", all_ipos |-> all_ipos]
    ELSE MergeResults(Tail(results), all_ipos \o Head(results).items)

\* _save_to_database: the first statement of the loop body reads
\* IPO.company, an attribute models.IPO does not have (its column is
\* company_name); the AttributeError is caught, the session is rolled back
\* and nothing is stored
SaveToDatabase(saved, ipos) == saved

\* cache_manager.set(...) is a coroutine function (utils/cache.py:104) and
\* is called without await: the coroutine is dropped and never runs
CacheSet(cache, value) == cache

\* a variant that stamps last_fetch after every cycle
LastFetchAlways(last_fetch, processed_ipos, clock) == <<clock>>

\* self.last_fetch = datetime.now().isoformat(), in the branch of a
\* non-empty batch (<<>> is None)
LastFetchAfter(last_fetch, processed_ipos, clock) ==
    IF processed_ipos # <<>> THEN <<clock>> ELSE last_fetch

\* the call's record and the service's stores after a cycle that has
\* merged all_ipos (lines 106-122)
MergedEffect(results, all_ipos, service, clock) ==
    LET unique_ipos == RemoveDuplicates(all_ipos)
        processed_ipos == ProcessIpoData(unique_ipos, clock)
    IN  [cycle |-> [status |-> "returned",
                    results |-> results,
                    merged |-> TRUE,
                    all_ipos |-> all_ipos,
                    unique_ipos |-> unique_ipos,
                    returned |-> processed_ipos],
         saved |-> IF processed_ipos # <<>>
                   THEN SaveToDatabase(service.saved, processed_ipos)
                   ELSE service.saved,
         cache |-> IF processed_ipos # <<>>
                   THEN CacheSet(service.cache, processed_ipos)
                   ELSE service.cache,
         last_fetch |-> LastFetchAfter(service.last_fetch, processed_ipos,
                                       clock)]

\* what a call of fetch_all_ipo_data does, given the adapters' outcomes:
\* the call's record and the service's stores after it.  An error of the
\* merge is caught at line 124: the call returns [], all_ipos is lost and
\* nothing is stored
FetchEffect(results, service, clock) ==
    IF MergeResults(results, <<>>).status = "raised"
    THEN [cycle |-> [status |-> "returned",
                     results |-> results,
                     merged |-> FALSE,
                     all_ipos |-> <<>>,
                     unique_ipos |-> <<>>,
                     returned |-> <<>>],
          saved |-> service.saved,
          cache |-> service.cache,
          last_fetch |-> service.last_fetch]
    ELSE MergedEffect(results, MergeResults(results, <<>>).all_ipos, service,
                      clock)

\* a direct call (the refresh endpoints, IPOScheduler)
FetchAllIpoData(results) ==
    LET effect == FetchEffect(results, realtime, now)
    IN  /\ cycle' = effect.cycle
        /\ realtime' = [realtime EXCEPT !.saved = effect.saved,
                                        !.cache = effect.cache,
                                        !.last_fetch = effect.last_fetch]
        /\ UNCHANGED validatorVars
        /\ UNCHANGED <<profit, fetcher, ipo_table, all_run, scheduler, limiter>>

(***************************************************************************)
(* The adapters' outcomes                                                  *)
(***************************************************************************)
\* three company names; the first two have the same key
TechCorp == <<"T", "e", "c", "h", " ", "C", "o">>

TechCorpJoined == <<"t", "e", "c", "h", "c", "o">>

GreenLtd == <<"G", "r", "e", "e", "n">>

IpoObservation(source, company, gmp, confidence_score, board_type) ==
    [company |-> company, source |-> source, gmp |-> gmp, lot_size |-> 30,
     confidence_score |-> confidence_score, board_type |-> board_type]

\* the adapters of fetch_all_ipo_data, in the order of its task list
source_names == <<"Chittorgarh", "IPOWatch", "NSE", "BSE", "Mock">>

\* what each adapter may hand back: an exception, a cancellation, nothing,
\* or a list
AdapterOutcomes ==
    <<{Raised, Cancelled, Returned(<<>>),
       Returned(<<IpoObservation("chittorgarh", TechCorp, 25, 75, "Main Board")>>)},
      {Raised, Cancelled, Returned(<<>>),
       Returned(<<IpoObservation("ipowatch", TechCorpJoined, 60, 90, "SME"),
                  IpoObservation("ipowatch", GreenLtd, -5, 65, "SME")>>)},
      {Raised, Cancelled, Returned(<<>>),
       Returned(<<IpoObservation("nse", TechCorp, 10, 70, "Main Board"),
                  IpoObservation("nse", TechCorpJoined, 12, 80, "Main Board")>>)},
      {Raised, Cancelled, Returned(<<>>),
       Returned(<<IpoObservation("bse", GreenLtd, 55, 85, "Main Board")>>)},
      {Raised, Cancelled, Returned(<<>>),
       Returned(<<IpoObservation("mock", TechCorp, 0, 60, "Main Board")>>)}>>

\* the sequences that take their i-th element from the i-th set of choices
RECURSIVE Products(_)
Products(choices) ==
    IF choices = <<>> THEN {<<>>}
    ELSE {<<first>> \o rest : first \in Head(choices),
                               rest \in Products(Tail(choices))}

RealTimeOutcomes == Products(AdapterOutcomes)

(***************************************************************************)
(* DataFetcher.fetch_all_sources                                           *)
(*                                                                         *)
(* Every source's result that is not an exception is handed to             *)
(* _save_source_data as soon as the loop comes to it.                      *)
(***************************************************************************)
\* asyncio.gather(*tasks, return_exceptions=True) has returned: every
\* adapter has finished
GatherSources(source_results) ==
    /\ fetcher.pc = "idle"
    /\ fetcher' = [pc |-> "merging", source_results |-> source_results,
                   results |-> <<>>, saving |-> <<>>]
    /\ UNCHANGED validatorVars
    /\ UNCHANGED <<profit, cycle, realtime, ipo_table, all_run, scheduler, limiter>>

\* one pass of the loop of lines 57-64: for a result that is an Exception
\* an empty list is put into results; any other result (a CancelledError
\* too) is put into results itself and handed to _save_source_data, taken
\* here up to its first commit
MergeSource ==
    /\ fetcher.pc = "merging"
    /\ fetcher.saving = <<>>
    /\ Len(fetcher.results) < Len(fetcher_sources)
    /\ LET i == Len(fetcher.results) + 1
           result == fetcher.source_results[i]
       IN  IF result.kind = "raised"
           THEN /\ fetcher' = [fetcher EXCEPT
                                  !.results = Append(@, Returned(<<>>))]
                /\ UNCHANGED <<db, ipo_table>>
           ELSE \E saved \in SaveSourceData(ipo_table, db, fetcher_sources[i],
                                             result, FirstItem, now) :
                   /\ fetcher' = [fetcher EXCEPT !.results = Append(@, result),
                                                 !.saving = saved.rest]
                   /\ db' = saved.rows
                   /\ ipo_table' = saved.ipos
    /\ UNCHANGED <<now, validation, spike>>
    /\ UNCHANGED <<profit, cycle, realtime, all_run, scheduler, limiter>>

\* return results
ReturnResults ==
    /\ fetcher.pc = "merging"
    /\ fetcher.saving = <<>>
    /\ Len(fetcher.results) = Len(fetcher_sources)
    /\ fetcher' = [fetcher EXCEPT !.pc = "returned"]
    /\ UNCHANGED validatorVars
    /\ UNCHANGED <<profit, cycle, realtime, ipo_table, all_run, scheduler, limiter>>

\* the sources' results as they would be were the cache call awaited and
\* the parsed data returned
SourceOutcomesAwaited ==
    <<{Raised, Returned(<<GmpObservation(Alpha, 20)>>)},
      {Cancelled, Returned(<<GmpObservation(Alpha, 30)>>)},
      {Raised, Returned(<<GmpObservation(Gamma, 25), GmpObservation(Alpha, 20)>>)},
      {Cancelled, Returned(<<GmpObservation(Gamma, 30)>>)}>>

\* what gather hands back for each source: _fetch_source_data returns the
\* coroutine object at lines 72-74 in every call; an exception and a
\* cancellation are what the environment can make of a task
SourceOutcomes ==
    <<{Raised, Cancelled, Coroutine},
      {Raised, Cancelled, Coroutine},
      {Raised, Cancelled, Coroutine},
      {Raised, Cancelled, Coroutine}>>

FetcherOutcomes == Products(SourceOutcomes)

(***************************************************************************)
(* The fetch cycles (specification SpecFetch).  The two services share no  *)
(* state: a behaviour exercises one of them                                *)
(***************************************************************************)
InitFetch ==
    /\ db = <<>>
    /\ now = 0
    /\ validation = NoValidation
    /\ spike = NoSpike
    /\ ServicesIdle

\* no source hands back a list, so no call of _save_source_data commits and
\* none is left to go on
NextFetch ==
    \/ /\ fetcher = FetcherIdle
       /\ \E results \in RealTimeOutcomes : FetchAllIpoData(results)
    \/ /\ cycle = NoCycle
       /\ \E source_results \in FetcherOutcomes : GatherSources(source_results)
    \/ MergeSource
    \/ ReturnResults

SpecFetch == InitFetch /\ [][NextFetch]_vars

(***************************************************************************)
(* Properties of the fetch cycles (specification SpecFetch)                *)
(***************************************************************************)
\* an adapter that raised or timed out (an exception or a cancellation)
AdapterRaised(outcome) == outcome.kind \in {"raised", "cancelled"}

\* an adapter that failed, or returned an empty list
AdapterFailed(outcome) == AdapterRaised(outcome) \/ outcome = Returned(<<>>)

\* C13: a fetch cycle does not raise whatever adapters raise or time out;
\* an adapter that failed contributes an empty list, and every observation
\* returned by an adapter that succeeded is in the merged batch (all_ipos
\* of fetch_all_ipo_data, results of fetch_all_sources)
FetchIsolation ==
    /\ cycle.status # "none"
          => /\ cycle.status = "returned"
             /\ \A i \in DOMAIN cycle.results :
                   cycle.results[i].kind = "list"
                      => \A j \in DOMAIN cycle.results[i].items :
                            \E k \in DOMAIN cycle.all_ipos :
                               cycle.all_ipos[k] = cycle.results[i].items[j]
             /\ Len(cycle.all_ipos) =
                   SumSeq([i \in DOMAIN cycle.results |->
                              Len(cycle.results[i].items)])
    /\ fetcher.pc = "returned"
          => \A i \in DOMAIN fetcher.source_results :
                /\ AdapterRaised(fetcher.source_results[i])
                      => fetcher.results[i] = Returned(<<>>)
                /\ fetcher.source_results[i].kind = "list"
                      => fetcher.results[i] = fetcher.source_results[i]

\* a cycle of fetch_all_ipo_data in which an adapter raised an Exception
\* and the last adapter's observation is in the merged batch
RaisedAdapterIsolated ==
    /\ cycle.status = "returned"
    /\ cycle.results[1].kind = "raised"
    /\ cycle.results[5].items # <<>>
    /\ \E k \in DOMAIN cycle.all_ipos : cycle.all_ipos[k].source = "mock"

\* a cycle of fetch_all_ipo_data in which an adapter was cancelled, another
\* returned observations, and the batch was dropped
CancelledAdapterDropsBatch ==
    /\ cycle.status = "returned"
    /\ \E i \in DOMAIN cycle.results : cycle.results[i].kind = "cancelled"
    /\ \E i \in DOMAIN cycle.results : cycle.results[i].items # <<>>
    /\ ~cycle.merged
    /\ cycle.returned = <<>>

\* C14: after deduplication every merged observation is either retained or
\* was dropped in favour of a retained observation of the same source and
\* the same normalized key (observations of different sources for one key
\* are all retained)
DedupKeepsOtherSources ==
    cycle.status = "returned"
        => \A i \in DOMAIN cycle.all_ipos :
              \/ \E k \in DOMAIN cycle.unique_ipos :
                    cycle.unique_ipos[k] = cycle.all_ipos[i]
              \/ \E k \in DOMAIN cycle.unique_ipos :
                    /\ cycle.unique_ipos[k].source = cycle.all_ipos[i].source
                    /\ CompanyKey(cycle.unique_ipos[k].company) =
                           CompanyKey(cycle.all_ipos[i].company)

ExpiryObservations == {<<Alpha, "nse", 20>>, <<Alpha, "chittorgarh", 30>>}

\* the table at the start: empty, or holding a row marked invalid
InitialTables ==
    {<<>>, <<[Row(1, "ipowatch", 1000, 0) EXCEPT !.is_valid = FALSE]>>}

\* the ipos table holds the ipo of the row the gmp_data table starts with
InitExpiry ==
    /\ db \in InitialTables
    /\ now = 0
    /\ validation = NoValidation
    /\ spike = NoSpike
    /\ profit = NoProfit
    /\ cycle = NoCycle
    /\ realtime = RealTimeInit
    /\ fetcher = FetcherIdle
    /\ ipo_table = IF db = <<>> THEN <<>>
                   ELSE <<Ipo(1, Alpha, "upcoming", <<0, 0>>, StoredDefaults)>>
    /\ all_run = NoRun
    /\ scheduler = SchedulerInit
    /\ limiter = LimiterInit

NextExpiry ==
    \/ \E obs \in ExpiryObservations : SaveGmpData(obs[1], obs[2], obs[3])
    \/ SaveSourceDataCommit
    \/ Tick
    \/ \E ipo_id \in IpoIds : ValidateIpoGmp(ipo_id)

\* the clock does advance
SpecExpiry == InitExpiry /\ [][NextExpiry]_vars /\ WF_vars(Tick)

(***************************************************************************)
(* Properties of the validation window (specification SpecExpiry)          *)
(***************************************************************************)
\* the rows that are valid and not older than the 6-hour window
InWindowValid(rows, clock) ==
    SelectSeq(rows, LAMBDA r : /\ r.is_valid
                               /\ ~(r.timestamp < clock - time_window_hours))

\* a valid row stamped t is inside the window
Contributes(t) ==
    \E i \in DOMAIN db : /\ db[i].timestamp = t
                         /\ db[i] \in Range(InWindowValid(db, now))

\* the time stamps after which the clock can still leave the window
ExpiringTimes ==
    {t \in 0..MaxClock : t + time_window_hours + ClockStep <= MaxClock}

\* C17: a row older than the 6-hour window or marked invalid never
\* influences a validation (the result is the one computed from the valid
\* in-window rows alone), and as the clock advances every row eventually
\* stops contributing
ExpiredNeverContributes ==
    /\ [][\A ipo_id \in IpoIds :
             ValidateIpoGmp(ipo_id)
                => validation' =
                      ValidateOutcome(ipo_id, InWindowValid(db, now), now)]_vars
    /\ \A t \in ExpiringTimes : Contributes(t) ~> ~Contributes(t)

\* C17 witness: a validation of two in-window rows while the table also
\* holds a valid row of the same ipo that has left the window
ExpiredRowWitness ==
    /\ Validated
    /\ validation.fields.ipo_id = 1
    /\ validation.fields.sources_count = 2
    /\ Len(RecentRecords(1, db, now)) = 2
    /\ \E i \in DOMAIN db : /\ db[i].ipo_id = 1
                            /\ db[i].is_valid
                            /\ db[i].timestamp < now - time_window_hours

(***************************************************************************)
(* Further properties of the validator (specification Spec)                *)
(***************************************************************************)
\* C18: the retained observations are exactly the input observations that
\* were not themselves flagged as outliers, also when another observation
\* of the same source was flagged, and source_count is the input count
\* minus the number of flagged observations (when at least min_sources
\* observations are not flagged)
RetainedIsInputMinusFlagged ==
    (Validated /\ Len(CallRecords) >= min_sources)
        => LET flagged == IF Len(CallValues) < 3 THEN {}
                          ELSE ZScoreIndices(CallValues)
               unflagged == DOMAIN CallValues \ flagged
           IN  Cardinality(unflagged) >= min_sources
                  => /\ validation.valid_indices = unflagged
                     /\ validation.fields.sources_count =
                           Len(CallValues) - Cardinality(flagged)


(***************************************************************************)
(* GMPValidator.validate_all_active_ipos                                   *)
(*                                                                         *)
(* ipo_table is the ipos table: issue prices in rupees, current_gmp in     *)
(* hundredths, confidence_score in thousandths, gmp_percentage as the      *)
(* fraction num / den.  all_run is the last run of the batch validation.   *)
(***************************************************************************)
active_statuses == {"upcoming", "open"}

\* the four stored fields of an ipos row the run may assign
StoredFields(ipo) ==
    <<ipo.current_gmp, ipo.confidence_score, ipo.gmp_percentage,
      ipo.is_profitable>>

\* the body of the loop for one IPO: an exception of validate_ipo_gmp is
\* raised before any assignment and rolled back; an unreliable result is
\* committed without assignments.  avg_issue_price is s / 2, that is
\* 50 * s hundredths
UpdatedIpo(ipo, outcome) ==
    IF outcome.status # "returned" THEN ipo
    ELSE IF ~outcome.fields.is_reliable THEN ipo
    ELSE LET s == ipo.issue_price_min + ipo.issue_price_max
             v == outcome.fields.validated_gmp
             base == [ipo EXCEPT !.current_gmp = v,
                                 !.confidence_score = outcome.fields.confidence_score]
         IN  IF s > 0
             THEN [base EXCEPT !.gmp_percentage = [num |-> 2 * v, den |-> s],
                               !.is_profitable = IsGmpProfitable(v, 50 * s, default_min_profit_percentage, 100 * default_min_absolute_profit)]
             ELSE base

\* what validate_ipo_gmp gives for every row of the table the loop comes
\* to, NoValidation for the rows that are not active.  The loop writes the
\* ipos table only, and validate_ipo_gmp reads the gmp_data table only, so
\* an outcome does not depend on the iterations before it
RECURSIVE ValidateEach(_, _, _)
ValidateEach(table, rows, clock) ==
    IF table = <<>> THEN <<>>
    ELSE <<IF Head(table).status \in active_statuses
           THEN ValidateOutcome(Head(table).id, rows, clock)
           ELSE NoValidation>> \o ValidateEach(Tail(table), rows, clock)

\* a variant of the loop that ends at the first validation that raised
RECURSIVE ValidateLoopUntilError(_, _, _)
ValidateLoopUntilError(table, i, outcomes) ==
    IF i > Len(table)
    THEN [table |-> table, attempted |-> <<>>, outcomes |-> <<>>,
          results |-> <<>>]
    ELSE IF table[i].status \notin active_statuses
    THEN ValidateLoopUntilError(table, i + 1, outcomes)
    ELSE IF outcomes[i].status # "returned"
    THEN [table |-> table, attempted |-> <<table[i].id>>,
          outcomes |-> <<outcomes[i]>>, results |-> <<>>]
    ELSE LET updated == [table EXCEPT ![i] = UpdatedIpo(table[i], outcomes[i])]
             rest == ValidateLoopUntilError(updated, i + 1, outcomes)
         IN  [table |-> rest.table,
              attempted |-> <<table[i].id>> \o rest.attempted,
              outcomes |-> <<outcomes[i]>> \o rest.outcomes,
              results |-> <<outcomes[i].fields>> \o rest.results]

\* the for loop from position i of the table on: rows that are not active
\* are not queried; an active row is validated, and whether its validation
\* returned or raised the loop goes on with the next row
RECURSIVE ValidateLoop(_, _, _)
ValidateLoop(table, i, outcomes) ==
    IF i > Len(table)
    THEN [table |-> table, attempted |-> <<>>, outcomes |-> <<>>,
          results |-> <<>>]
    ELSE IF table[i].status \notin active_statuses
    THEN ValidateLoop(table, i + 1, outcomes)
    ELSE LET updated == [table EXCEPT ![i] = UpdatedIpo(table[i], outcomes[i])]
             rest == ValidateLoop(updated, i + 1, outcomes)
         IN  [table |-> rest.table,
              attempted |-> <<table[i].id>> \o rest.attempted,
              outcomes |-> <<outcomes[i]>> \o rest.outcomes,
              results |-> IF outcomes[i].status = "returned"
                          THEN <<outcomes[i].fields>> \o rest.results
                          ELSE rest.results]

ValidateAllActiveIpos ==
    \E outcomes \in {ValidateEach(ipo_table, db, now)} :
      \E run \in {ValidateLoop(ipo_table, 1, outcomes)} :
        /\ ipo_table' = run.table
        /\ all_run' = [status |-> "done", attempted |-> run.attempted,
                       outcomes |-> run.outcomes, results |-> run.results]
        /\ validation' = IF run.outcomes = <<>> THEN validation
                         ELSE run.outcomes[Len(run.outcomes)]
        /\ UNCHANGED <<db, now, spike, profit, cycle, realtime, fetcher,
                       scheduler, limiter>>

ipo_statuses == {"upcoming", "open", "closed", "listed"}

\* the ipos tables the runs start from: two rows of any status, their
\* stored fields as the column defaults leave them (line 274 and the lines
\* after it are the only assignments to them)
IpoTables ==
    {<<Ipo(1, Alpha, s1, p1, StoredDefaults),
       Ipo(2, Gamma, s2, <<95, 105>>, StoredDefaults)>> :
        s1 \in ipo_statuses, s2 \in ipo_statuses,
        p1 \in {<<0, 0>>, <<95, 105>>}}

\* the gmp_data tables the runs start from: nothing, agreeing official
\* sources for IPO 1, a single source or diverging sources for IPO 2
ActiveTables ==
    {<<>>,
     <<Row(1, "nse", 20, 0), Row(1, "bse", 20, 0)>>,
     <<Row(1, "nse", 20, 0), Row(1, "bse", 20, 0), Row(2, "nse", 20, 0)>>,
     <<Row(2, "unlisted", 0, 0), Row(2, "unlisted", 50, 0)>>,
     <<Row(1, "nse", 20, 0), Row(1, "bse", 20, 0),
       Row(2, "unlisted", 0, 0), Row(2, "unlisted", 50, 0)>>}

InitActive ==
    /\ db \in ActiveTables
    /\ now = 0
    /\ validation = NoValidation
    /\ spike = NoSpike
    /\ profit = NoProfit
    /\ cycle = NoCycle
    /\ realtime = RealTimeInit
    /\ fetcher = FetcherIdle
    /\ ipo_table \in IpoTables
    /\ all_run = NoRun
    /\ scheduler = SchedulerInit
    /\ limiter = LimiterInit

\* the rows age while the runs repeat
NextActive ==
    \/ Tick
    \/ ValidateAllActiveIpos

SpecActive == InitActive /\ [][NextActive]_vars

\* the ids of the active rows of a table, in table order
RECURSIVE ActiveIds(_)
ActiveIds(table) ==
    IF table = <<>> THEN <<>>
    ELSE (IF Head(table).status \in active_statuses
          THEN <<Head(table).id>> ELSE <<>>) \o ActiveIds(Tail(table))

\* the outcome a run recorded for an IPO, NoValidation when it has none
RunOutcome(run, id) ==
    IF \E k \in DOMAIN run.attempted : run.attempted[k] = id
    THEN run.outcomes[CHOOSE k \in DOMAIN run.attempted : run.attempted[k] = id]
    ELSE NoValidation

MaxLoops == 2

\* the while condition of _periodic_fetch
WhileCheck(is_running) == IF is_running THEN "sleeping" ELSE "done"

\* a variant of the loop body that fetches after every sleep
AfterSleepUnchecked(is_running) == "fetching"

\* after asyncio.sleep: the fetch is started under `if self.is_running`,
\* otherwise the while condition is tested next
AfterSleep(is_running) ==
    IF is_running THEN "fetching" ELSE WhileCheck(is_running)

\* the adapters' outcomes of the fetches the service runs: every adapter
\* raising, every adapter returning its rows, and the first adapter
\* cancelled while the others return their rows
LoopOutcomes ==
    {[i \in DOMAIN AdapterOutcomes |-> Raised],
     [i \in DOMAIN AdapterOutcomes |->
         CHOOSE o \in AdapterOutcomes[i] : o.kind = "list" /\ o.items # <<>>],
     [i \in DOMAIN AdapterOutcomes |->
         IF i = 1 THEN Cancelled
         ELSE CHOOSE o \in AdapterOutcomes[i] : o.kind = "list" /\ o.items # <<>>]}

\* start_service up to its await of the initial fetch
StartService ==
    /\ Len(realtime.loops) + realtime.starting < MaxLoops
    /\ realtime' = IF realtime.is_running THEN realtime
                   ELSE [realtime EXCEPT !.is_running = TRUE,
                                         !.session = "open",
                                         !.starting = @ + 1]
    /\ UNCHANGED validatorVars
    /\ UNCHANGED <<profit, cycle, fetcher, ipo_table, all_run, scheduler, limiter>>

\* the initial fetch of a start_service call ends and the call creates the
\* _periodic_fetch task
StartFetched(results) ==
    /\ realtime.starting > 0
    /\ LET effect == FetchEffect(results, realtime, now)
       IN  /\ cycle' = effect.cycle
           /\ realtime' = [realtime EXCEPT !.saved = effect.saved,
                                           !.cache = effect.cache,
                                           !.last_fetch = effect.last_fetch,
                                           !.starting = @ - 1,
                                           !.loops = Append(@, "created")]
    /\ UNCHANGED validatorVars
    /\ UNCHANGED <<profit, fetcher, ipo_table, all_run, scheduler, limiter>>

\* stop_service: the flag is cleared before the await of session.close(),
\* and nothing of the service is written after it
StopService ==
    /\ realtime' = [realtime EXCEPT !.is_running = FALSE,
                                    !.session = IF @ = "open" THEN "closed"
                                                ELSE @]
    /\ UNCHANGED validatorVars
    /\ UNCHANGED <<profit, cycle, fetcher, ipo_table, all_run, scheduler, limiter>>

\* a created task runs to its first await or to its end
LoopEnter(k) ==
    /\ k \in DOMAIN realtime.loops
    /\ realtime.loops[k] = "created"
    /\ realtime' = [realtime EXCEPT !.loops[k] = WhileCheck(realtime.is_running)]
    /\ UNCHANGED validatorVars
    /\ UNCHANGED <<profit, cycle, fetcher, ipo_table, all_run, scheduler, limiter>>

\* asyncio.sleep(6 * 60 * 60) ends
LoopWake(k) ==
    /\ k \in DOMAIN realtime.loops
    /\ realtime.loops[k] = "sleeping"
    /\ realtime' = [realtime EXCEPT !.loops[k] = AfterSleep(realtime.is_running)]
    /\ UNCHANGED validatorVars
    /\ UNCHANGED <<profit, cycle, fetcher, ipo_table, all_run, scheduler, limiter>>

\* the fetch of a task ends and the while condition is tested
LoopFetched(k, results) ==
    /\ k \in DOMAIN realtime.loops
    /\ realtime.loops[k] = "fetching"
    /\ LET effect == FetchEffect(results, realtime, now)
       IN  /\ cycle' = effect.cycle
           /\ realtime' = [realtime EXCEPT !.saved = effect.saved,
                                           !.cache = effect.cache,
                                           !.last_fetch = effect.last_fetch,
                                           !.loops[k] = WhileCheck(realtime.is_running)]
    /\ UNCHANGED validatorVars
    /\ UNCHANGED <<profit, fetcher, ipo_table, all_run, scheduler, limiter>>

\* a step of the k-th task
LoopStep(k) ==
    \/ LoopEnter(k)
    \/ LoopWake(k)
    \/ \E results \in LoopOutcomes : LoopFetched(k, results)

InitService ==
    /\ db = <<>>
    /\ now = 0
    /\ validation = NoValidation
    /\ spike = NoSpike
    /\ ServicesIdle

NextService ==
    \/ StartService
    \/ \E results \in LoopOutcomes : StartFetched(results)
    \/ StopService
    \/ \E k \in 1..MaxLoops : LoopEnter(k)
    \/ \E k \in 1..MaxLoops : LoopWake(k)
    \/ \E k \in 1..MaxLoops, results \in LoopOutcomes : LoopFetched(k, results)
    \/ Tick

\* the event loop runs every task that can run: an awaited fetch returns,
\* a sleep ends
SpecService ==
    /\ InitService
    /\ [][NextService]_vars
    /\ \A k \in 1..MaxLoops : WF_vars(LoopStep(k))
    /\ WF_vars(\E results \in LoopOutcomes : StartFetched(results))

\* no start_service call is pending and every task created has left its loop
AllLoopsExited ==
    /\ realtime.starting = 0
    /\ \A k \in DOMAIN realtime.loops : realtime.loops[k] = "done"

\* C20: while is_running is False, which it is from a stop_service call to
\* the next start_service call, no task of _periodic_fetch starts a
\* fetch_all_ipo_data, and unless start_service is called again every task
\* eventually leaves its loop
StoppedLoopExits ==
    /\ [][\A k \in DOMAIN realtime.loops :
             (realtime.loops[k] # "fetching" /\ realtime'.loops[k] = "fetching")
                => realtime.is_running]_vars
    /\ (~realtime.is_running) ~> (realtime.is_running \/ AllLoopsExited)

\* a service that was started, fetched, was stopped, and whose task left
\* its loop
StoppedLoopWitness ==
    /\ ~realtime.is_running
    /\ realtime.session = "closed"
    /\ realtime.loops = <<"done">>
    /\ realtime.starting = 0
    /\ realtime.last_fetch # <<>>
    /\ cycle.status = "returned"


\* C25: in every call that reaches _detect_outliers the z-score pass flags
\* at most half of the observations (len(outliers) > len(values) // 2 is
\* false), so the list returned is the z-score result and never the IQR
\* result
ZScoreNeverMajority ==
    (Validated /\ Len(CallRecords) >= min_sources)
        => /\ 2 * Cardinality(ZScoreIndices(CallValues)) <= Len(CallValues)
           /\ Cardinality(ZScoreIndices(CallValues)) <= Len(CallValues) \div 2
           /\ Len(CallValues) >= 3
                 => validation.detected =
                       Pick(CallSources, ZScoreIndices(CallValues), 1)

\* C25 witness: a call on six observations in which the z-score pass
\* flagged one of them and its result was the list returned
ZScoreKeptWitness ==
    /\ Validated
    /\ Len(CallValues) = 6
    /\ Cardinality(ZScoreIndices(CallValues)) = 1
    /\ validation.detected = Pick(CallSources, ZScoreIndices(CallValues), 1)

\* C27: the variance field of every result the validator computes is >= 0
VarianceNonNegative ==
    (Validated /\ Len(CallRecords) >= min_sources)
        => validation.fields.variance >= 0


\* C26: a call of detect_gmp_spike made while fewer than min_sources valid
\* rows of the ipo lie inside the 6-hour validation window reports no
\* spike, whatever older rows exist
InsufficientWindowNoEvent ==
    [][\A ipo_id \in IpoIds :
          (/\ DetectGmpSpike(ipo_id)
           /\ Len(RecentRecords(ipo_id, db, now)) < min_sources)
             => spike'.status # "event"]_vars

\* C26 witness: a call for ipo 1 with two rows in the 24-hour window, fewer
\* than min_sources of them in the 6-hour window and an older baseline above
\* zero, which reported no spike
InsufficientWindowWitness ==
    /\ spike.status \in {"raised", "no_event"}
    /\ validation.status # "none"
    /\ validation.fields.ipo_id = 1
    /\ validation.fields.sources_count < min_sources
    /\ validation.fields.sources_count = Len(RecentRecords(1, db, now))
    /\ validation.fields.validated_gmp = 0
    /\ SpikeWindowCount(1, db, now) >= 2
    /\ \A older \in OlderValues(1, db, now) : SumSeq(older) > 0


AliveLoops == {k \in DOMAIN realtime.loops : realtime.loops[k] # "done"}

\* C29: at most one task of _periodic_fetch is alive
AtMostOneLoopAlive == Cardinality(AliveLoops) <= 1


(***************************************************************************)
(* IPOScheduler (tasks/ipo_scheduler.py)                                   *)
(*                                                                         *)
(* Times are minutes of time.time().  scheduler.tasks is the dict          *)
(* self.tasks in its insertion order, scheduler.loop the task that runs    *)
(* _run_scheduler_loop: "sleeping" in asyncio.sleep(1) (or created and not *)
(* yet run), "executing" in `await task['func']()` of the task at `index`  *)
(* during the pass that read `current_time`, "cancelled" after             *)
(* stop_scheduler cancelled it, "done" after the while loop was left.      *)
(* scheduler.detached holds the dict the for loop of the pass iterates     *)
(* once setup_tasks has bound self.tasks to a new dict (<<>> while the     *)
(* loop iterates self.tasks itself).                                       *)
(***************************************************************************)
MaxSchedClock == 60

SchedStep == 30

MaxHistory == 1

retry_delay == 1

\* whether a task function suspends at an await: fetch_ipo_data awaits the
\* fetch, update_gmp_data awaits fetch_ipo_data, the other two are `pass`
Awaits(func) == func \in {"fetch_ipo_data", "update_gmp_data"}

\* one entry of self.tasks as setup_tasks builds it at time t
ScheduledTask(task_id, func, interval, t) ==
    [task_id |-> task_id, func |-> func, interval |-> interval,
     next_run |-> t + interval, last_run |-> <<>>, status |-> "pending"]

SetupTasks(t) ==
    <<ScheduledTask("periodic_fetch", "fetch_ipo_data", 120, t),
      ScheduledTask("market_update", "update_gmp_data", 30, t),
      ScheduledTask("daily_fetch", "check_profitable_ipos", 60, t),
      ScheduledTask("weekly_cleanup", "send_daily_notifications", 1440, t)>>

\* what the awaited function of a task can do: return, or raise an
\* Exception.  The four functions of setup_tasks catch Exception themselves;
\* a function put into self.tasks (get_task_status hands the dict out) may
\* raise
TaskOutcomes == {"returns", "raises"}

\* a variant of the except branch that retries after the task's interval
FinishedTaskSameDelay(task, outcome, current_time, finished_at) ==
    IF outcome = "returns"
    THEN [task EXCEPT !.last_run = <<finished_at>>,
                      !.next_run = current_time + task.interval,
                      !.status = "completed"]
    ELSE [task EXCEPT !.next_run = current_time + task.interval,
                      !.status = "failed"]

\* lines 67-70 for a function that returned, lines 80-81 for one that raised
FinishedTask(task, outcome, current_time, finished_at) ==
    IF outcome = "returns"
    THEN [task EXCEPT !.last_run = <<finished_at>>,
                      !.next_run = current_time + task.interval,
                      !.status = "completed"]
    ELSE [task EXCEPT !.next_run = current_time + retry_delay,
                      !.status = "failed"]

\* the task_history entry appended (the error text is left out)
HistoryEntry(task, outcome, finished_at) ==
    [task_id |-> task.task_id,
     status |-> IF outcome = "returns" THEN "success" ELSE "failed",
     timestamp |-> finished_at]

\* the for loop of one pass from position i on, up to the next await: a task
\* that is not due is skipped, a due task whose function does not suspend
\* is run to its end, a due task whose function suspends is left "running"
RECURSIVE RunFrom(_, _, _, _, _)
RunFrom(tasks, history, i, current_time, t) ==
    IF i > Len(tasks)
    THEN [tasks |-> tasks, task_history |-> history,
          loop |-> [pc |-> "sleeping", index |-> 0,
                    current_time |-> current_time]]
    ELSE IF current_time < tasks[i].next_run
    THEN RunFrom(tasks, history, i + 1, current_time, t)
    ELSE IF Awaits(tasks[i].func)
    THEN [tasks |-> [tasks EXCEPT ![i].status = "running"],
          task_history |-> history,
          loop |-> [pc |-> "executing", index |-> i,
                    current_time |-> current_time]]
    ELSE RunFrom([tasks EXCEPT ![i] = FinishedTask(tasks[i], "returns", current_time, t)],
                 Append(history, HistoryEntry(tasks[i], "returns", t)),
                 i + 1, current_time, t)

LoopAlive == scheduler.loop.pc \in {"sleeping", "executing"}

\* the dict a pass that is at an await iterates
LoopTasks(sched) ==
    IF sched.detached # <<>> THEN sched.detached[1] ELSE sched.tasks

\* self.tasks = {...} of setup_tasks: a pass that is at an await keeps the
\* dict it iterates
Detached(sched) ==
    IF sched.loop.pc = "executing" THEN <<LoopTasks(sched)>> ELSE <<>>

\* start_scheduler.  Called where no event loop runs, asyncio.create_task
\* raises RuntimeError after the tasks were set up and the flag was set
StartScheduler(event_loop) ==
    /\ Len(scheduler.task_history) < MaxHistory
    /\ scheduler' =
          IF scheduler.is_running THEN scheduler
          ELSE [scheduler EXCEPT
                   !.tasks = SetupTasks(scheduler.time),
                   !.detached = Detached(scheduler),
                   !.is_running = TRUE,
                   !.loop = IF event_loop
                            THEN [pc |-> "sleeping", index |-> 0,
                                  current_time |-> scheduler.time]
                            ELSE @]
    /\ UNCHANGED validatorVars
    /\ UNCHANGED <<profit, cycle, realtime, fetcher, ipo_table, all_run, limiter>>

\* setup_tasks called on its own
SetupTasksCall ==
    /\ Len(scheduler.task_history) < MaxHistory
    /\ scheduler' = [scheduler EXCEPT !.tasks = SetupTasks(scheduler.time),
                                      !.detached = Detached(scheduler)]
    /\ UNCHANGED validatorVars
    /\ UNCHANGED <<profit, cycle, realtime, fetcher, ipo_table, all_run, limiter>>

\* stop_scheduler: the flag is cleared and the loop task is cancelled; the
\* CancelledError raised at its await is no Exception, so neither the task
\* function nor the loop catches it
StopScheduler ==
    /\ scheduler' =
          [scheduler EXCEPT
              !.is_running = FALSE,
              !.loop = IF LoopAlive THEN [@ EXCEPT !.pc = "cancelled"] ELSE @]
    /\ UNCHANGED validatorVars
    /\ UNCHANGED <<profit, cycle, realtime, fetcher, ipo_table, all_run, limiter>>

\* force_run_task of a task that exists
ForceRunTask(i) ==
    /\ Len(scheduler.task_history) < MaxHistory
    /\ i \in DOMAIN scheduler.tasks
    /\ scheduler' = [scheduler EXCEPT !.tasks[i].next_run = scheduler.time]
    /\ UNCHANGED validatorVars
    /\ UNCHANGED <<profit, cycle, realtime, fetcher, ipo_table, all_run, limiter>>

\* time.time() advances
SchedTick ==
    /\ Len(scheduler.task_history) < MaxHistory
    /\ scheduler.time + SchedStep <= MaxSchedClock
    /\ scheduler' = [scheduler EXCEPT !.time = @ + SchedStep]
    /\ UNCHANGED validatorVars
    /\ UNCHANGED <<profit, cycle, realtime, fetcher, ipo_table, all_run, limiter>>

\* the loop task runs from its sleep (or its creation): the while condition,
\* then one pass over self.tasks up to its first await
LoopPass ==
    /\ scheduler.loop.pc = "sleeping"
    /\ \E run \in {RunFrom(scheduler.tasks, scheduler.task_history, 1,
                           scheduler.time, scheduler.time)} :
          scheduler' =
             IF ~scheduler.is_running
             THEN [scheduler EXCEPT !.loop.pc = "done", !.detached = <<>>]
             ELSE [scheduler EXCEPT !.tasks = run.tasks,
                                    !.task_history = run.task_history,
                                    !.loop = run.loop,
                                    !.detached = <<>>]
    /\ UNCHANGED validatorVars
    /\ UNCHANGED <<profit, cycle, realtime, fetcher, ipo_table, all_run, limiter>>

\* the awaited function of the running task ends, and the pass goes on.
\* A function that returns is fetch_ipo_data or update_gmp_data: it has
\* awaited fetch_all_ipo_data of the real-time service, whose adapters gave
\* `results` (datetime.now() is the scheduler's clock here)
TaskFinished(outcome, results) ==
    /\ scheduler.loop.pc = "executing"
    /\ LET i == scheduler.loop.index
           ct == scheduler.loop.current_time
           t == scheduler.time
       IN  \E run \in {RunFrom([LoopTasks(scheduler) EXCEPT
                                   ![i] = FinishedTask(@, outcome, ct, t)],
                               Append(scheduler.task_history,
                                      HistoryEntry(LoopTasks(scheduler)[i],
                                                   outcome, t)),
                               i + 1, ct, t)} :
              scheduler' =
                 IF scheduler.detached # <<>>
                 THEN [scheduler EXCEPT !.detached = <<run.tasks>>,
                                        !.task_history = run.task_history,
                                        !.loop = run.loop]
                 ELSE [scheduler EXCEPT !.tasks = run.tasks,
                                        !.task_history = run.task_history,
                                        !.loop = run.loop]
    /\ IF outcome = "returns"
       THEN \E effect \in {FetchEffect(results, realtime, scheduler.time)} :
               /\ cycle' = effect.cycle
               /\ realtime' = [realtime EXCEPT !.saved = effect.saved,
                                               !.cache = effect.cache,
                                               !.last_fetch = effect.last_fetch]
       ELSE UNCHANGED <<cycle, realtime>>
    /\ UNCHANGED validatorVars
    /\ UNCHANGED <<profit, fetcher, ipo_table, all_run, limiter>>

InitScheduler ==
    /\ db = <<>>
    /\ now = 0
    /\ validation = NoValidation
    /\ spike = NoSpike
    /\ ServicesIdle

NextScheduler ==
    \/ \E event_loop \in BOOLEAN : StartScheduler(event_loop)
    \/ SetupTasksCall
    \/ StopScheduler
    \/ \E i \in 1..4 : ForceRunTask(i)
    \/ SchedTick
    \/ LoopPass
    \/ \E outcome \in TaskOutcomes, results \in LoopOutcomes :
          TaskFinished(outcome, results)

SpecScheduler == InitScheduler /\ [][NextScheduler]_vars


\* the positions of the tasks a step has appended a history entry for
RanIn(T, H, H2) ==
    {i \in DOMAIN T : \E k \in (Len(H) + 1)..Len(H2) : H2[k].task_id = T[i].task_id}

\* C21: in every step of the scheduler loop, with ct the time its pass
\* read: a task is started or run only if ct >= its next_run; a task whose
\* run succeeded has status 'completed' and next_run = ct + interval; a task
\* whose run raised has status 'failed', next_run = ct + 60 s and exactly one
\* 'failed' history entry; the loop stays alive, and every later task of the
\* pass that is due is run (or is the one now running).  The tasks are
\* those of the dict the pass iterates
SchedulerPassRule ==
    [][(LoopPass \/ \E outcome \in TaskOutcomes, results \in LoopOutcomes :
                       TaskFinished(outcome, results))
         /\ scheduler.is_running
       => LET T == IF scheduler.loop.pc = "executing"
                   THEN LoopTasks(scheduler) ELSE scheduler.tasks
              T2 == LoopTasks(scheduler')
              H == scheduler.task_history
              H2 == scheduler'.task_history
              ct == scheduler'.loop.current_time
              i0 == IF scheduler.loop.pc = "executing"
                    THEN scheduler.loop.index ELSE 0
              last == IF scheduler'.loop.pc = "executing"
                      THEN scheduler'.loop.index ELSE Len(T) + 1
              Ran == RanIn(T, H, H2)
              Started == {i \in DOMAIN T : /\ T2[i].status = "running"
                                           /\ T[i].status # "running"}
          IN  /\ \A i \in Started \cup (Ran \ {i0}) : ct >= T[i].next_run
              /\ Len(H2) = Len(H) + Cardinality(Ran)
              /\ SubSeq(H2, 1, Len(H)) = H
              /\ \A k \in (Len(H) + 1)..Len(H2) :
                    \A i \in Ran :
                       H2[k].task_id = T[i].task_id
                          => \/ /\ H2[k].status = "success"
                                /\ T2[i].status = "completed"
                                /\ T2[i].next_run = ct + T[i].interval
                             \/ /\ H2[k].status = "failed"
                                /\ T2[i].status = "failed"
                                /\ T2[i].next_run = ct + retry_delay
              /\ scheduler'.loop.pc \in {"sleeping", "executing"}
              /\ \A j \in DOMAIN T :
                    (j > i0 /\ j < last /\ ct >= T[j].next_run) => j \in Ran
              /\ scheduler'.loop.pc = "executing" => last \in Started
              /\ \A i \in DOMAIN T :
                    i \notin Ran \cup Started => T2[i] = T[i]]_vars

\* C21 witness: in one pass market_update raised and daily_fetch, due in
\* the same pass, was run after it; the loop is still alive
FailedThenNextRanWitness ==
    /\ scheduler.is_running
    /\ scheduler.loop.pc = "sleeping"
    /\ Len(scheduler.task_history) = 2
    /\ scheduler.task_history[1].task_id = "market_update"
    /\ scheduler.task_history[1].status = "failed"
    /\ scheduler.task_history[2].task_id = "daily_fetch"
    /\ scheduler.task_history[2].status = "success"
    /\ scheduler.tasks[2].status = "failed"
    /\ scheduler.tasks[2].next_run = scheduler.loop.current_time + retry_delay
    /\ scheduler.tasks[3].status = "completed"
    /\ scheduler.tasks[3].next_run = scheduler.loop.current_time + 60

\* C30: once the scheduler has stopped (is_running False and no loop task
\* alive) no task has status 'running'
NoTaskLeftRunning ==
    (~scheduler.is_running /\ ~LoopAlive)
        => \A i \in DOMAIN scheduler.tasks :
              scheduler.tasks[i].status # "running"


(***************************************************************************)
(* RateLimiter (utils/rate_limiter.py), memory store                       *)
(*                                                                         *)
(* limiter.requests and limiter.blocked_ips are the dicts of the object,   *)
(* as functions on the identifiers they hold.  cache_manager.is_connected  *)
(* is False unless a Redis server was reached, so is_allowed takes the     *)
(* memory branch.                                                          *)
(***************************************************************************)
RATE_LIMIT_PER_MINUTE == 60

RATE_LIMIT_BURST == 100

block_duration == 300

\* self.requests[identifier] of the defaultdict
RequestTimes(requests, identifier) ==
    IF identifier \in DOMAIN requests THEN requests[identifier] ELSE <<>>

\* d[key] = value on a dict held as a function
DictSet(d, key, value) ==
    [k \in DOMAIN d \cup {key} |-> IF k = key THEN value ELSE d[k]]

\* del d[key]
DictDel(d, key) == [k \in DOMAIN d \ {key} |-> d[k]]

\* the while loop of lines 111-112: popleft while the oldest timestamp is
\* not inside the window
RECURSIVE PopOld(_, _, _)
PopOld(request_times, window, current_time) ==
    IF request_times # <<>> /\ Head(request_times) <= current_time - window
    THEN PopOld(Tail(request_times), window, current_time)
    ELSE request_times

\* a variant that records the request before it tests the regular limit
MemoryRateLimitRecordFirst(request_times, limit, window, burst_limit, current_time) ==
    LET kept == PopOld(request_times, window, current_time)
    IN  IF Len(kept) >= burst_limit
        THEN [allowed |-> FALSE, request_times |-> kept, block |-> TRUE]
        ELSE IF Len(kept) >= limit
        THEN [allowed |-> FALSE, request_times |-> Append(kept, current_time),
              block |-> FALSE]
        ELSE [allowed |-> TRUE, request_times |-> Append(kept, current_time),
              block |-> FALSE]

\* _memory_rate_limit on the deque of one identifier: whether the request
\* is allowed, the deque afterwards, whether the identifier gets blocked
MemoryRateLimit(request_times, limit, window, burst_limit, current_time) ==
    LET kept == PopOld(request_times, window, current_time)
    IN  IF Len(kept) >= burst_limit
        THEN [allowed |-> FALSE, request_times |-> kept, block |-> TRUE]
        ELSE IF Len(kept) >= limit
        THEN [allowed |-> FALSE, request_times |-> kept, block |-> FALSE]
        ELSE [allowed |-> TRUE, request_times |-> Append(kept, current_time),
              block |-> FALSE]

\* RateLimiter.is_allowed on the object `lim`: the object afterwards, with
\* the call's record in last
IsAllowed(lim, identifier, limit, window, burst_limit) ==
    LET current_time == lim.time
        is_blocked == /\ identifier \in DOMAIN lim.blocked_ips
                      /\ current_time < lim.blocked_ips[identifier]
        unblocked == IF identifier \in DOMAIN lim.blocked_ips
                     THEN DictDel(lim.blocked_ips, identifier)
                     ELSE lim.blocked_ips
        answer == MemoryRateLimit(RequestTimes(lim.requests, identifier),
                                  limit, window, burst_limit, current_time)
        call == [status |-> "returned", identifier |-> identifier,
                 limit |-> limit, window |-> window,
                 burst_limit |-> burst_limit, time |-> current_time]
    IN  IF is_blocked
        THEN [lim EXCEPT !.last = [call EXCEPT !.status = "denied"]]
        ELSE [lim EXCEPT
                 !.requests = DictSet(@, identifier, answer.request_times),
                 !.blocked_ips =
                     IF answer.block
                     THEN DictSet(unblocked, identifier, current_time + block_duration)
                     ELSE unblocked,
                 !.allowed = IF answer.allowed
                             THEN DictSet(@, identifier,
                                          Append(RequestTimes(@, identifier), current_time))
                             ELSE @,
                 !.last = [call EXCEPT !.status =
                              IF answer.allowed THEN "allowed" ELSE "denied"]]

\* get_remaining_requests, memory branch: the deque is created if it is
\* missing, and its timestamps outside the window are dropped
GetRemainingRequests(lim, identifier, limit, window) ==
    CHOOSE after \in
      {[lim EXCEPT !.requests = DictSet(@, identifier, kept),
                   !.remaining = <<Max(0, limit - Len(kept))>>] :
          kept \in {PopOld(RequestTimes(lim.requests, identifier), window,
                           lim.time)}} : TRUE

\* reset_limit: the identifier's deque and block are deleted
ResetLimit(lim, identifier) ==
    [lim EXCEPT
        !.requests = IF identifier \in DOMAIN @ THEN DictDel(@, identifier)
                     ELSE @,
        !.blocked_ips = IF identifier \in DOMAIN @ THEN DictDel(@, identifier)
                        ELSE @,
        !.allowed = IF identifier \in DOMAIN @ THEN DictDel(@, identifier)
                    ELSE @]

\* block_ip
BlockIp(lim, identifier, duration) ==
    [lim EXCEPT !.blocked_ips = DictSet(@, identifier, lim.time + duration)]

\* unblock_ip
UnblockIp(lim, identifier) ==
    [lim EXCEPT
        !.blocked_ips = IF identifier \in DOMAIN @ THEN DictDel(@, identifier)
                        ELSE @]

\* is_blocked: a block that has run out is deleted
IsBlocked(lim, identifier) ==
    IF identifier \notin DOMAIN lim.blocked_ips
    THEN [lim EXCEPT !.blocked = <<FALSE>>]
    ELSE IF lim.time < lim.blocked_ips[identifier]
    THEN [lim EXCEPT !.blocked = <<TRUE>>]
    ELSE [lim EXCEPT !.blocked_ips = DictDel(@, identifier),
                     !.blocked = <<FALSE>>]

MaxLimiterClock == 300

MaxSmallTicks == 3

\* the arguments the calls are made with: limit, window, burst_limit
LimiterArguments ==
    {<<1, 2, RATE_LIMIT_BURST>>, <<2, 2, RATE_LIMIT_BURST>>,
     <<3, 2, 2>>, <<2, 3, 2>>}

\* the limiter is used with one set of arguments, kept in last
InitLimiter ==
    /\ db = <<>>
    /\ now = 0
    /\ validation = NoValidation
    /\ spike = NoSpike
    /\ profit = NoProfit
    /\ cycle = NoCycle
    /\ realtime = RealTimeInit
    /\ fetcher = FetcherIdle
    /\ ipo_table = <<>>
    /\ all_run = NoRun
    /\ scheduler = SchedulerInit
    /\ \E a \in LimiterArguments :
          limiter = [LimiterInit EXCEPT
                        !.last = [status |-> "none", identifier |-> "ip",
                                  limit |-> a[1], window |-> a[2],
                                  burst_limit |-> a[3], time |-> 0]]

\* a request of the identifier arrives
IsAllowedCall ==
    /\ limiter' = IsAllowed(limiter, limiter.last.identifier, limiter.last.limit,
                            limiter.last.window, limiter.last.burst_limit)
    /\ UNCHANGED validatorVars
    /\ UNCHANGED <<profit, cycle, realtime, fetcher, ipo_table, all_run, scheduler>>

\* time.time() advances by a second, or by the length of a block
LimiterTick(d) ==
    /\ \/ d = 1 /\ limiter.time % block_duration < MaxSmallTicks
       \/ d = block_duration /\ limiter.time + d <= MaxLimiterClock
    /\ limiter' = [limiter EXCEPT !.time = @ + d]
    /\ UNCHANGED validatorVars
    /\ UNCHANGED <<profit, cycle, realtime, fetcher, ipo_table, all_run, scheduler>>

\* the other methods, called for the identifier with the arguments in use
\* (block_ip with its default duration)
GetRemainingRequestsCall ==
    /\ limiter' = GetRemainingRequests(limiter, limiter.last.identifier,
                                       limiter.last.limit, limiter.last.window)
    /\ UNCHANGED validatorVars
    /\ UNCHANGED <<profit, cycle, realtime, fetcher, ipo_table, all_run, scheduler>>

ResetLimitCall ==
    /\ limiter' = ResetLimit(limiter, limiter.last.identifier)
    /\ UNCHANGED validatorVars
    /\ UNCHANGED <<profit, cycle, realtime, fetcher, ipo_table, all_run, scheduler>>

BlockIpCall ==
    /\ limiter' = BlockIp(limiter, limiter.last.identifier, block_duration)
    /\ UNCHANGED validatorVars
    /\ UNCHANGED <<profit, cycle, realtime, fetcher, ipo_table, all_run, scheduler>>

UnblockIpCall ==
    /\ limiter' = UnblockIp(limiter, limiter.last.identifier)
    /\ UNCHANGED validatorVars
    /\ UNCHANGED <<profit, cycle, realtime, fetcher, ipo_table, all_run, scheduler>>

IsBlockedCall ==
    /\ limiter' = IsBlocked(limiter, limiter.last.identifier)
    /\ UNCHANGED validatorVars
    /\ UNCHANGED <<profit, cycle, realtime, fetcher, ipo_table, all_run, scheduler>>

NextLimiter ==
    \/ IsAllowedCall
    \/ GetRemainingRequestsCall
    \/ ResetLimitCall
    \/ BlockIpCall
    \/ UnblockIpCall
    \/ IsBlockedCall
    \/ \E d \in {1, block_duration} : LimiterTick(d)

SpecLimiter == InitLimiter /\ [][NextLimiter]_vars

\* the timestamps of a sequence that lie in the window (t - window, t]
InWindow(times, window, t) ==
    {k \in DOMAIN times : times[k] > t - window /\ times[k] <= t}

\* C22: for the identifier, limit and window in use: the recorded
\* timestamps inside the current window number at most min(limit,
\* burst_limit); of the requests ever allowed (since the identifier's last
\* reset_limit, if there was one), at most limit have their timestamps in
\* any window (t - window, t]; and a call that is denied appends nothing to
\* the deque
MemoryLimitRespected ==
    /\ [](LET a == limiter.last
              recorded == RequestTimes(limiter.requests, a.identifier)
              allowed == RequestTimes(limiter.allowed, a.identifier)
          IN  /\ Cardinality(InWindow(recorded, a.window, limiter.time))
                    <= Min(a.limit, a.burst_limit)
              /\ \A k \in DOMAIN allowed :
                    Cardinality(InWindow(allowed, a.window, allowed[k]))
                       <= a.limit)
    /\ [][(IsAllowedCall /\ limiter'.last.status = "denied")
            => LET before == RequestTimes(limiter.requests, limiter.last.identifier)
                   after == RequestTimes(limiter'.requests, limiter.last.identifier)
               IN  /\ Len(after) <= Len(before)
                   /\ after = SubSeq(before, Len(before) - Len(after) + 1,
                                     Len(before))]_vars

\* C22 witness: with limit 2 and window 2 two requests of one second were
\* allowed and recorded, and the third call, made in the same window, was
\* denied
LimitReachedWitness ==
    /\ limiter.last.status = "denied"
    /\ limiter.last.limit = 2
    /\ limiter.last.burst_limit = RATE_LIMIT_BURST
    /\ Len(RequestTimes(limiter.requests, "ip")) = 2
    /\ limiter.requests["ip"][1] = limiter.requests["ip"][2]
    /\ limiter.time = limiter.requests["ip"][1] + 1
    /\ "ip" \notin DOMAIN limiter.blocked_ips


(***************************************************************************)
(* APIKeyRateLimiter (utils/rate_limiter.py)                               *)
(***************************************************************************)
TIER_LIMITS ==
    [free |-> [requests_per_hour |-> 100, requests_per_day |-> 1000],
     premium |-> [requests_per_hour |-> 1000, requests_per_day |-> 10000],
     enterprise |-> [requests_per_hour |-> 10000, requests_per_day |-> 100000]]

hour_window == 3600

day_window == 86400

\* lines 232-233: a tier that is not in TIER_LIMITS is taken as "free"
EffectiveTier(tier) == IF tier \in DOMAIN TIER_LIMITS THEN tier ELSE "free"

\* the tiers the calls are made with, one of them unknown
Tiers == DOMAIN TIER_LIMITS \cup {"trial"}

\* APIKeyRateLimiter.is_allowed for the key "k": the hourly call, and the
\* daily call if the hourly one allowed; neither passes burst_limit, so
\* both run with settings.RATE_LIMIT_BURST.  The key's allowed requests
\* are kept under "api_key:k".
ApiKeyIsAllowed(lim, tier) ==
    LET limits == TIER_LIMITS[EffectiveTier(tier)]
        hourly == IsAllowed(lim, "api_key_hour:k", limits.requests_per_hour,
                            hour_window, RATE_LIMIT_BURST)
        daily == IsAllowed(hourly, "api_key_day:k", limits.requests_per_day,
                           day_window, RATE_LIMIT_BURST)
        call == [status |-> "denied", identifier |-> "api_key:k",
                 tier |-> tier, time |-> lim.time]
    IN  IF hourly.last.status # "allowed"
        THEN [hourly EXCEPT !.last = call]
        ELSE IF daily.last.status # "allowed"
        THEN [daily EXCEPT !.last = call]
        ELSE [daily EXCEPT
                 !.last = [call EXCEPT !.status = "allowed"],
                 !.allowed = DictSet(@, "api_key:k",
                                     Append(RequestTimes(@, "api_key:k"), lim.time))]

\* APIKeyRateLimiter.get_usage_stats for the key "k": get_remaining_requests
\* on the hourly and then on the daily deque, which creates a missing deque
\* and drops the timestamps that left the window; the dict returned is kept
\* in last
GetUsageStats(lim, tier) ==
    LET limits == TIER_LIMITS[EffectiveTier(tier)]
        hourly == GetRemainingRequests(lim, "api_key_hour:k",
                                       limits.requests_per_hour, hour_window)
        daily == GetRemainingRequests(hourly, "api_key_day:k",
                                      limits.requests_per_day, day_window)
    IN  [daily EXCEPT
            !.remaining = lim.remaining,
            !.last = [status |-> "stats", identifier |-> "api_key:k",
                      tier |-> tier, time |-> lim.time,
                      stats |-> [tier |-> EffectiveTier(tier),
                                 hourly_limit |-> limits.requests_per_hour,
                                 hourly_remaining |-> hourly.remaining[1],
                                 hourly_used |-> limits.requests_per_hour
                                                    - hourly.remaining[1],
                                 daily_limit |-> limits.requests_per_day,
                                 daily_remaining |-> daily.remaining[1],
                                 daily_used |-> limits.requests_per_day
                                                   - daily.remaining[1]]]]

MaxApiClock == 3600

\* one key, of one tier
InitApiKey ==
    /\ db = <<>>
    /\ now = 0
    /\ validation = NoValidation
    /\ spike = NoSpike
    /\ profit = NoProfit
    /\ cycle = NoCycle
    /\ realtime = RealTimeInit
    /\ fetcher = FetcherIdle
    /\ ipo_table = <<>>
    /\ all_run = NoRun
    /\ scheduler = SchedulerInit
    /\ \E tier \in Tiers :
          limiter = [LimiterInit EXCEPT
                        !.last = [status |-> "none", identifier |-> "api_key:k",
                                  tier |-> tier, time |-> 0]]

\* a request with the key arrives
ApiKeyIsAllowedCall ==
    /\ limiter' = ApiKeyIsAllowed(limiter, limiter.last.tier)
    /\ UNCHANGED validatorVars
    /\ UNCHANGED <<profit, cycle, realtime, fetcher, ipo_table, all_run, scheduler>>

\* the usage of the key is asked for
GetUsageStatsCall ==
    /\ limiter' = GetUsageStats(limiter, limiter.last.tier)
    /\ UNCHANGED validatorVars
    /\ UNCHANGED <<profit, cycle, realtime, fetcher, ipo_table, all_run, scheduler>>

\* an hour passes
ApiTick ==
    /\ limiter.time + hour_window <= MaxApiClock
    /\ limiter' = [limiter EXCEPT !.time = @ + hour_window]
    /\ UNCHANGED validatorVars
    /\ UNCHANGED <<profit, cycle, realtime, fetcher, ipo_table, all_run, scheduler>>

NextApiKey == ApiKeyIsAllowedCall \/ GetUsageStatsCall \/ ApiTick

SpecApiKey == InitApiKey /\ [][NextApiKey]_vars

\* the requests of the key that were allowed in the window ending now
ApiCount(window) ==
    Cardinality(InWindow(RequestTimes(limiter.allowed, "api_key:k"),
                         window, limiter.time))

\* C23: a request of a key is allowed whenever the key's allowed requests
\* of the last hour number less than the tier's requests_per_hour and
\* those of the last day less than its requests_per_day
AllowedBelowTierLimits ==
    [][(/\ ApiKeyIsAllowedCall
        /\ ApiCount(hour_window)
              < TIER_LIMITS[EffectiveTier(limiter.last.tier)].requests_per_hour
        /\ ApiCount(day_window)
              < TIER_LIMITS[EffectiveTier(limiter.last.tier)].requests_per_day)
        => limiter'.last.status = "allowed"]_vars


\* C24: in a call on at most 5 observations the validator excludes no
\* source: _detect_outliers returns the empty list, every observation is
\* retained and sources_count is the number of observations
SmallBatchExcludesNothing ==
    (Validated /\ Len(CallRecords) >= min_sources /\ Len(CallRecords) <= 5)
        => /\ validation.detected = <<>>
           /\ validation.valid_indices = DOMAIN CallRecords
           /\ validation.fields.sources_count = Len(CallRecords)

====
